---- MODULE Spec2Model ----
(***************************************************************************)
(* Model of the newsletter ingestion pipeline: the parser                  *)
(* (parsers/newsletter_parser.py), the ingestion coordinator, the record   *)
(* queries and the retention sweep (backend/newsletter_service.py) over    *)
(* the newsletters table (backend/database.py).                            *)
(*                                                                         *)
(* Python strings are sequences of one-character strings, so that strip,   *)
(* lower, startswith and the `in` substring test are computed, not assumed.*)
(***************************************************************************)
EXTENDS Integers, Sequences, FiniteSets, TLC

VARIABLES
    db,       \* rows of the newsletters table (a set of records)
    now,      \* the wall clock, in hours (datetime.utcnow())
    tz,       \* UTC offset, in hours, of the host's local time zone
    run,      \* the state of the extract_newsletters call in progress
    nruns,    \* how many ingestion runs were started
    resp,     \* the answer of the last record query or sweep
    pmsg,     \* parser harness: the Gmail message handed to the parser
    pstage,   \* parser harness: how far parse_gmail_message has got
    pres,     \* parser harness: the values computed so far
    app,      \* the web application: starting, serving or failed to start
    daily,    \* the daily AI summary run (GET /api/ai-summary)
    call      \* summarization harness: one call of a SummarizationService

vars == <<db, now, tz, run, nruns, resp, pmsg, pstage, pres, app, daily, call>>

-----------------------------------------------------------------------------
(* Python str operations.                                                  *)

UpperCase == <<"A","B","C","D","E","F","G","H","I","J","K","L","M",
               "N","O","P","Q","R","S","T","U","V","W","X","Y","Z">>
LowerCase == <<"a","b","c","d","e","f","g","h","i","j","k","l","m",
               "n","o","p","q","r","s","t","u","v","w","x","y","z">>
Digits == {"0","1","2","3","4","5","6","7","8","9"}

\* str.lower() on one character
LowerChar(c) ==
    IF \E k \in 1..Len(UpperCase) : UpperCase[k] = c
    THEN LowerCase[CHOOSE k \in 1..Len(UpperCase) : UpperCase[k] = c]
    ELSE c

\* str.lower()
Lower(s) == [k \in 1..Len(s) |-> LowerChar(s[k])]

\* str.isspace() on one character
IsSpace(c) == c \in {" ", "\n", "\t"}

\* str.isalnum() on one character
IsAlnum(c) ==
    \/ c \in Digits
    \/ \E k \in 1..Len(UpperCase) : UpperCase[k] = c \/ LowerCase[k] = c

RECURSIVE LStrip(_)
LStrip(s) == IF s # <<>> /\ IsSpace(Head(s)) THEN LStrip(Tail(s)) ELSE s

RECURSIVE RStrip(_)
RStrip(s) ==
    IF s # <<>> /\ IsSpace(s[Len(s)]) THEN RStrip(SubSeq(s, 1, Len(s) - 1)) ELSE s

\* str.strip()
Strip(s) == RStrip(LStrip(s))

\* str.startswith(p)
StartsWith(s, p) == Len(p) <= Len(s) /\ SubSeq(s, 1, Len(p)) = p

\* the `k in s` substring test
Contains(s, k) ==
    \E i \in 1..(Len(s) - Len(k) + 1) : SubSeq(s, i, i + Len(k) - 1) = k

\* the number of "\n" characters right before position i of s
NewlinesBefore(s, i) ==
    LET stops == {j \in 1..(i - 1) : s[j] # "\n"} IN
    IF stops = {} THEN i - 1
    ELSE i - 1 - (CHOOSE j \in stops : \A k \in stops : k <= j)

\* s.count('\n\n\n'): str.count takes the occurrences left to right without
\* overlap, so a run of n newlines counts n \div 3 times
CountBlankRuns(s) ==
    Cardinality({i \in 1..(Len(s) - 2) :
                    /\ s[i] = "\n" /\ s[i + 1] = "\n" /\ s[i + 2] = "\n"
                    /\ NewlinesBefore(s, i) % 3 = 0})

\* sep.join(parts)
RECURSIVE Join(_, _)
Join(sep, parts) ==
    IF parts = <<>> THEN <<>>
    ELSE IF Len(parts) = 1 THEN parts[1]
    ELSE parts[1] \o sep \o Join(sep, Tail(parts))

NL2 == <<"\n", "\n">>

-----------------------------------------------------------------------------
(* database.py                                                             *)

DEFAULT_OWNER_EMAIL == <<"d", "e", "f", "a", "u", "l", "t", "@", "l", "o", "c", "a", "l">>

-----------------------------------------------------------------------------
(* newsletter_parser.py: NewsletterParser                                  *)

\* the sender table, in the order the dict literal lists its keys
CATEGORY_MAPPING ==
   <<
      [key |-> <<"p", "e", "t", "e", "r", " ", "y", "a", "n", "g">>, category |-> "product_ai"],
      [key |-> <<"l", "e", "n", "n", "y">>, category |-> "product_ai"],
      [key |-> <<"l", "e", "n", "n", "y", "'", "s", " ", "n", "e", "w", "s", "l", "e", "t", "t", "e", "r">>, category |-> "product_ai"],
      [key |-> <<"b", "e", "n", " ", "t", "h", "o", "m", "p", "s", "o", "n">>, category |-> "product_ai"],
      [key |-> <<"s", "t", "r", "a", "t", "e", "c", "h", "e", "r", "y">>, category |-> "product_ai"],
      [key |-> <<"t", "l", "d", "r">>, category |-> "product_ai"],
      [key |-> <<"t", "l", "d", "r", " ", "a", "i">>, category |-> "product_ai"],
      [key |-> <<"t", "l", "d", "r", " ", "p", "r", "o", "d", "u", "c", "t">>, category |-> "product_ai"],
      [key |-> <<"t", "h", "e", " ", "c", "o", "d", "e">>, category |-> "product_ai"],
      [key |-> <<"s", "u", "p", "e", "r", "h", "u", "m", "a", "n">>, category |-> "product_ai"],
      [key |-> <<"e", "l", "e", "n", "a">>, category |-> "product_ai"],
      [key |-> <<"e", "l", "e", "n", "a", "'", "s", " ", "g", "r", "o", "w", "t", "h", " ", "s", "c", "o", "o", "p">>, category |-> "product_ai"],
      [key |-> <<"h", "i", "l", "a", "r", "y", " ", "g", "r", "i", "d", "l", "e", "y">>, category |-> "product_ai"],
      [key |-> <<"t", "a", "l", " ", "r", "a", "v", "i", "v">>, category |-> "product_ai"],
      [key |-> <<"h", "a", "l", "f", " ", "b", "a", "k", "e", "d">>, category |-> "product_ai"],
      [key |-> <<"m", "a", "r", "i", "o", " ", "f", "r", "a", "i", "o", "l", "i">>, category |-> "health_fitness"],
      [key |-> <<"m", "o", "r", "n", "i", "n", "g", " ", "s", "h", "a", "k", "e", "o", "u", "t">>, category |-> "health_fitness"],
      [key |-> <<"f", "i", "t", "t", "i", "n", "s", "i", "d", "e", "r">>, category |-> "health_fitness"],
      [key |-> <<"s", "w", "e", "a", "t", " ", "s", "c", "i", "e", "n", "c", "e">>, category |-> "health_fitness"],
      [key |-> <<"s", "n", "a", "c", "k", "s">>, category |-> "finance"],
      [key |-> <<"c", "h", "a", "r", "t", "r">>, category |-> "finance"],
      [key |-> <<"s", "a", "h", "i", "l", " ", "b", "l", "o", "o", "m">>, category |-> "sahil_bloom"],
      [key |-> <<"c", "u", "r", "i", "o", "s", "i", "t", "y", " ", "c", "h", "r", "o", "n", "i", "c", "l", "e">>, category |-> "sahil_bloom"]
   >>


\* ---- the Gmail API message object -------------------------------------
\* A header value is a character sequence, except Date, whose value is kept
\* as what email.utils.parsedate_to_datetime makes of it:
\*   kind "empty"  the empty string
\*   kind "bad"    text that parsedate_to_datetime rejects (ValueError)
\*   kind "aware"  a date with a zone: wall time t (hours), offset off
\*   kind "naive"  a date with zone -0000 or no zone: wall time t
EmptyDate == [kind |-> "empty", t |-> 0, off |-> 0]

\* headers = {h['name']: h['value'] for h in ...}: the last value wins
RECURSIVE HeaderGet(_, _, _)
HeaderGet(headers, name, default) ==
    IF headers = <<>> THEN default
    ELSE LET h == headers[Len(headers)] IN
         IF h.name = name THEN h.value
         ELSE HeaderGet(SubSeq(headers, 1, Len(headers) - 1), name, default)

\* index of the first occurrence of character c in s, 0 when there is none
FirstIndex(s, c) ==
    IF \E i \in 1..Len(s) : s[i] = c
    THEN CHOOSE i \in 1..Len(s) : s[i] = c /\ \A j \in 1..(i - 1) : s[j] # c
    ELSE 0

RECURSIVE StripQuotes(_)
StripQuotes(s) ==
    IF s # <<>> /\ Head(s) = "\"" THEN StripQuotes(Tail(s))
    ELSE IF s # <<>> /\ s[Len(s)] = "\"" THEN StripQuotes(SubSeq(s, 1, Len(s) - 1))
    ELSE s

\* _parse_sender: re.match(r'^(.*?)\s*<(.+?)>$', from_header)
\* The lazy groups make the first "<" the opening bracket; the match needs
\* a final ">" and at least one character between the two.
parse_sender(from_header) ==
    LET n == Len(from_header)
        j == FirstIndex(from_header, "<")
    IN  IF n > 0 /\ from_header[n] = ">" /\ j > 0 /\ j + 1 <= n - 1
        THEN [name  |-> StripQuotes(Strip(SubSeq(from_header, 1, j - 1))),
              email |-> Strip(SubSeq(from_header, j + 1, n - 1))]
        ELSE [name |-> Strip(from_header), email |-> Strip(from_header)]

\* ---- message bodies ---------------------------------------------------
\* A body part's data is base64 text: kind "empty" (no data), "html" (it
\* decodes to the document doc) or "corrupt" (urlsafe_b64decode raises).
\* A decoded document is the sequence of its elements as BeautifulSoup
\* finds them, every element holding one text string and at most one
\* attribute (href of <a>, src of <img>).
NoData == [kind |-> "empty", doc |-> <<>>]
HtmlData(doc) == [kind |-> "html", doc |-> doc]
CorruptData == [kind |-> "corrupt", doc |-> <<>>]
PlainData == [kind |-> "plain", doc |-> <<>>]

El(tag, text) == [tag |-> tag, text |-> text, hasattr |-> FALSE, attr |-> <<>>]
ElA(tag, text, attr) == [tag |-> tag, text |-> text, hasattr |-> TRUE, attr |-> attr]

\* base64.urlsafe_b64decode(data).decode('utf-8', errors='ignore')
Decode(data) ==
    IF data.kind = "corrupt" THEN [kind |-> "raise", doc |-> <<>>]
    ELSE [kind |-> "html", doc |-> data.doc]

NoneBody == [kind |-> "none", doc |-> <<>>]

\* Python truthiness of an Optional[str]
Truthy(body) == body.kind = "html" /\ body.doc # <<>>

\* _extract_html_body: the payload itself, then its parts in order, nested
\* parts depth first; an exception of the decoder propagates
RECURSIVE extract_html_body(_)
RECURSIVE ExtractFromParts(_)
ExtractFromParts(parts) ==
    IF parts = <<>> THEN NoneBody
    ELSE LET part == Head(parts) IN
         IF part.mimeType = "text/html" /\ part.data.kind # "empty"
         THEN Decode(part.data)
         ELSE LET nested == IF part.parts # <<>> THEN extract_html_body(part)
                            ELSE NoneBody
              IN  IF nested.kind = "raise" \/ Truthy(nested) THEN nested
                  ELSE ExtractFromParts(Tail(parts))
extract_html_body(payload) ==
    IF payload.mimeType = "text/html" /\ payload.data.kind # "empty"
    THEN Decode(payload.data)
    ELSE ExtractFromParts(payload.parts)

\* `k in html_content.lower()`: markup holds no platform name, so the text
\* strings and the attribute values decide
HtmlContains(doc, k) ==
    \E i \in 1..Len(doc) :
        \/ Contains(Lower(doc[i].text), k)
        \/ doc[i].hasattr /\ Contains(Lower(doc[i].attr), k)

\* _detect_platform
detect_platform(sender_email, doc) ==
    LET email_lower == Lower(sender_email) IN
    IF Contains(email_lower, <<"s", "u", "b", "s", "t", "a", "c", "k", ".", "c", "o", "m">>) THEN "substack"
    ELSE IF \/ Contains(email_lower, <<"b", "e", "e", "h", "i", "i", "v", ".", "c", "o", "m">>)
            \/ HtmlContains(doc, <<"b", "e", "e", "h", "i", "i", "v">>) THEN "beehiiv"
    ELSE IF \/ HtmlContains(doc, <<"c", "o", "n", "v", "e", "r", "t", "k", "i", "t">>)
            \/ Contains(email_lower, <<"k", "i", "t", "-", "m", "a", "i", "l">>) THEN "convertkit"
    ELSE IF \/ Contains(email_lower, <<"t", "l", "d", "r", "n", "e", "w", "s", "l", "e", "t", "t", "e", "r", ".", "c", "o", "m">>)
            \/ Contains(email_lower, <<"t", "l", "d", "r">>) THEN "tldr"
    ELSE IF Contains(email_lower, <<"s", "t", "r", "a", "t", "e", "c", "h", "e", "r", "y", ".", "c", "o", "m">>) THEN "stratechery"
    ELSE "generic"

\* _determine_category: the first table entry whose key is in the name or in
\* the address, else product_ai
RECURSIVE CategoryFrom(_, _, _)
CategoryFrom(table, name_lower, email_lower) ==
    IF table = <<>> THEN "product_ai"
    ELSE IF \/ Contains(name_lower, Head(table).key)
            \/ Contains(email_lower, Head(table).key)
         THEN Head(table).category
         ELSE CategoryFrom(Tail(table), name_lower, email_lower)

\* the table looked up with the name and the address as they are written
determine_category_cased(sender_name, sender_email) ==
    CategoryFrom(CATEGORY_MAPPING, sender_name, sender_email)

determine_category(sender_name, sender_email) ==
    CategoryFrom(CATEGORY_MAPPING, Lower(sender_name), Lower(sender_email))

\* the error result with the flags of a successful parse
ErrorResultAsSuccess(message_id, sender_name, sender_email, subject, date, error_msg) ==
    [message_id      |-> message_id,
     sender_name     |-> sender_name,
     sender_email    |-> sender_email,
     subject         |-> subject,
     date            |-> date,
     platform        |-> "unknown",
     category        |-> "product_ai",
     content         |-> <<>>,
     title           |-> <<>>,
     sections        |-> <<>>,
     links           |-> <<>>,
     images          |-> <<>>,
     metadata        |-> [error |-> error_msg],
     parsing_success |-> TRUE,
     needs_review    |-> FALSE]

\* _create_error_result
create_error_result(message_id, sender_name, sender_email, subject, date, error_msg) ==
    [message_id      |-> message_id,
     sender_name     |-> sender_name,
     sender_email    |-> sender_email,
     subject         |-> subject,
     date            |-> date,
     platform        |-> "unknown",
     category        |-> "product_ai",
     content         |-> <<>>,
     title           |-> subject,
     sections        |-> <<>>,
     links           |-> <<>>,
     images          |-> <<>>,
     metadata        |-> [error |-> error_msg],
     parsing_success |-> FALSE,
     needs_review    |-> TRUE]

-----------------------------------------------------------------------------
(* newsletter_parser.py: the extraction strategies                         *)

\* for element in soup.find_all(tags): element.decompose()
Decompose(doc, tags) == SelectSeq(doc, LAMBDA e : e.tag \notin tags)

\* soup.find_all(tags), in document order
FindAll(doc, tags) == SelectSeq(doc, LAMBDA e : e.tag \in tags)

\* element.get_text(strip=True)
TextOf(e) == Strip(e.text)

\* soup.stripped_strings: the stripped strings that are not empty
RECURSIVE StrippedStrings(_)
StrippedStrings(doc) ==
    IF doc = <<>> THEN <<>>
    ELSE IF TextOf(Head(doc)) = <<>> THEN StrippedStrings(Tail(doc))
    ELSE <<TextOf(Head(doc))>> \o StrippedStrings(Tail(doc))

\* soup.get_text(separator=sep, strip=True)
GetText(doc, sep) == Join(sep, StrippedStrings(doc))

\* str.split('\n')
RECURSIVE SplitLines(_)
SplitLines(s) ==
    LET i == FirstIndex(s, "\n") IN
    IF i = 0 THEN <<s>>
    ELSE <<SubSeq(s, 1, i - 1)>> \o SplitLines(SubSeq(s, i + 1, Len(s)))

\* re.sub(r'\n{3,}', '\n\n', s): of a run of three or more newlines the
\* first two stay; shorter runs stay whole
CollapseNewlines(s) ==
    LET keep == SelectSeq([i \in 1..Len(s) |-> i],
                          LAMBDA i : s[i] # "\n" \/ NewlinesBefore(s, i) < 2)
    IN  [k \in 1..Len(keep) |-> s[keep[k]]]

\* the title: the text of the first <h1>, or ''
FirstH1Title(doc) ==
    LET hs == FindAll(doc, {"h1"}) IN
    IF hs = <<>> THEN <<>> ELSE TextOf(hs[1])

\* the document without its first <h1> (h1.decompose())
WithoutFirstH1(doc) ==
    IF \E i \in 1..Len(doc) : doc[i].tag = "h1"
    THEN LET i == CHOOSE k \in 1..Len(doc) :
                     doc[k].tag = "h1" /\ \A j \in 1..(k - 1) : doc[j].tag # "h1"
         IN  SubSeq(doc, 1, i - 1) \o SubSeq(doc, i + 1, Len(doc))
    ELSE doc

\* for a in soup.find_all('a', href=True): the links whose href is not
\* empty and starts with none of the excluded prefixes
ExtractLinks(doc, excluded) ==
    LET as == SelectSeq(doc, LAMBDA e :
                  /\ e.tag = "a" /\ e.hasattr /\ e.attr # <<>>
                  /\ \A p \in excluded : ~StartsWith(e.attr, p))
    IN  [k \in 1..Len(as) |-> [url |-> as[k].attr, text |-> TextOf(as[k])]]

MailtoHashJs == {<<"m", "a", "i", "l", "t", "o", ":">>, <<"#">>, <<"j", "a", "v", "a", "s", "c", "r", "i", "p", "t", ":">>}
MailtoHash == {<<"m", "a", "i", "l", "t", "o", ":">>, <<"#">>}

\* the <p> texts that follow a heading, up to the next <h2>/<h3>
RECURSIVE ParagraphsUntilHeading(_)
ParagraphsUntilHeading(siblings) ==
    IF siblings = <<>> \/ Head(siblings).tag \in {"h2", "h3"} THEN <<>>
    ELSE IF Head(siblings).tag = "p" /\ TextOf(Head(siblings)) # <<>>
         THEN <<TextOf(Head(siblings))>> \o ParagraphsUntilHeading(Tail(siblings))
         ELSE ParagraphsUntilHeading(Tail(siblings))

\* the heading-to-next-heading sections of SubstackParser and
\* ConvertKitParser: a heading without paragraph text gives no section
RECURSIVE HeadingSections(_)
HeadingSections(doc) ==
    IF doc = <<>> THEN <<>>
    ELSE IF Head(doc).tag \in {"h2", "h3"}
         THEN LET body == ParagraphsUntilHeading(Tail(doc)) IN
              (IF body # <<>>
               THEN <<[heading |-> TextOf(Head(doc)),
                       content |-> Join(<<"\n">>, body)]>>
               ELSE <<>>) \o HeadingSections(Tail(doc))
         ELSE HeadingSections(Tail(doc))

SubstackBoilerplate ==
    {<<"V", "i", "e", "w", " ", "t", "h", "i", "s", " ", "p", "o", "s", "t", " ", "o", "n", " ", "t", "h", "e", " ", "w", "e", "b">>, <<"U", "n", "s", "u", "b", "s", "c", "r", "i", "b", "e">>, <<"S", "h", "a", "r", "e">>}

\* SubstackParser.parse
SubstackParse(html) ==
    LET d1 == Decompose(html, {"script", "style"})
        d2 == SelectSeq(d1, LAMBDA e :
                  \A b \in SubstackBoilerplate : ~Contains(e.text, b))
        d3 == WithoutFirstH1(d2)
    IN  [content      |-> CollapseNewlines(GetText(d3, NL2)),
         title        |-> FirstH1Title(d2),
         sections     |-> HeadingSections(d3),
         links        |-> ExtractLinks(d3, MailtoHashJs),
         images       |-> <<>>,
         metadata     |-> [platform |-> "substack"],
         needs_review |-> FALSE]

\* \w of the re module
IsWord(c) == IsAlnum(c) \/ c = "_"

\* re.match(r'^[^\w\s]{1,3}\s+.+', s)
BeehiivHeading(s) ==
    \E k \in 1..3 :
        /\ k + 2 <= Len(s)
        /\ \A i \in 1..k : ~IsWord(s[i]) /\ ~IsSpace(s[i])
        /\ \E m \in (k + 1)..(Len(s) - 1) :
              /\ \A i \in (k + 1)..m : IsSpace(s[i])
              /\ s[m + 1] # "\n"

BeehiivMinText == 10
BeehiivMaxImages == 5

\* BeehiivParser.parse
BeehiivParse(html) ==
    LET d1 == Decompose(html, {"script", "style"})
        els == SelectSeq(FindAll(d1, {"h1", "h2", "h3", "p", "li"}),
                         LAMBDA e : Len(TextOf(e)) > BeehiivMinText)
        text_elements == [k \in 1..Len(els) |-> TextOf(els[k])]
        heads == SelectSeq(text_elements, BeehiivHeading)
        imgs == SelectSeq(d1, LAMBDA e : e.tag = "img" /\ e.hasattr /\ e.attr # <<>>)
        images == [k \in 1..Len(imgs) |-> imgs[k].attr]
    IN  [content      |-> Join(NL2, text_elements),
         title        |-> FirstH1Title(d1),
         sections     |-> [k \in 1..Len(heads) |-> [heading |-> heads[k], content |-> <<>>]],
         links        |-> ExtractLinks(d1, MailtoHash),
         images       |-> images,
         metadata     |-> [platform |-> "beehiiv", image_count |-> Len(images)],
         needs_review |-> Len(images) > BeehiivMaxImages]

TldrMinItem == 20

\* the loop of TLDRParser.parse: a heading with text opens a section, any
\* other long enough text is an item of the section opened last
RECURSIVE TldrSections(_, _)
TldrSections(els, sections) ==
    IF els = <<>> THEN sections
    ELSE LET e == Head(els)
             text == TextOf(e)
             n == Len(sections)
         IN  IF e.tag \in {"h2", "h3"} /\ text # <<>>
             THEN TldrSections(Tail(els),
                      Append(sections, [heading |-> text, items |-> <<>>]))
             ELSE IF n > 0 /\ text # <<>> /\ Len(text) > TldrMinItem
             THEN TldrSections(Tail(els),
                      [sections EXCEPT ![n].items = Append(@, text)])
             ELSE TldrSections(Tail(els), sections)

RECURSIVE TldrContentParts(_)
TldrContentParts(sections) ==
    IF sections = <<>> THEN <<>>
    ELSE <<Head(sections).heading \o <<"\n">>>> \o Head(sections).items
         \o << <<>> >> \o TldrContentParts(Tail(sections))

\* TLDRParser.parse
TldrParse(html) ==
    LET d1 == Decompose(html, {"script", "style"})
        sections == TldrSections(FindAll(d1, {"h2", "h3", "p", "a"}), <<>>)
    IN  [content      |-> Join(<<"\n">>, TldrContentParts(sections)),
         title        |-> <<"T", "L", "D", "R", " ", "N", "e", "w", "s", "l", "e", "t", "t", "e", "r">>,
         sections     |-> sections,
         links        |-> ExtractLinks(d1, MailtoHash),
         images       |-> <<>>,
         metadata     |-> [platform |-> "tldr"],
         needs_review |-> FALSE]

\* ConvertKitParser.parse
ConvertKitParse(html) ==
    LET d1 == Decompose(html, {"script", "style"})
    IN  [content      |-> CollapseNewlines(GetText(d1, NL2)),
         title        |-> FirstH1Title(d1),
         sections     |-> HeadingSections(d1),
         links        |-> ExtractLinks(d1, MailtoHash),
         images       |-> <<>>,
         metadata     |-> [platform |-> "convertkit"],
         needs_review |-> FALSE]

\* a generic parser that asks for a review only when it found no text
GenericParseReviewIfEmpty(html) ==
    LET d1 == Decompose(html, {"script", "style", "footer", "header"})
        text == GetText(d1, NL2)
        split == SplitLines(text)
        stripped == [k \in 1..Len(split) |-> Strip(split[k])]
        lines == SelectSeq(stripped, LAMBDA l : l # <<>>)
    IN  [content      |-> Join(NL2, lines),
         title        |-> FirstH1Title(d1),
         sections     |-> <<>>,
         links        |-> ExtractLinks(d1, MailtoHashJs),
         images       |-> <<>>,
         metadata     |-> [platform |-> "generic"],
         needs_review |-> lines = <<>>]

\* GenericParser.parse: needs_review is set whatever the input
GenericParse(html) ==
    LET d1 == Decompose(html, {"script", "style", "footer", "header"})
        text == GetText(d1, NL2)
        split == SplitLines(text)
        stripped == [k \in 1..Len(split) |-> Strip(split[k])]
        lines == SelectSeq(stripped, LAMBDA l : l # <<>>)
    IN  [content      |-> Join(NL2, lines),
         title        |-> FirstH1Title(d1),
         sections     |-> <<>>,
         links        |-> ExtractLinks(d1, MailtoHashJs),
         images       |-> <<>>,
         metadata     |-> [platform |-> "generic"],
         needs_review |-> TRUE]

\* _route_to_parser: stratechery and every unlisted platform go to the
\* generic parser
route_to_parser(platform, html) ==
    CASE platform = "substack"   -> SubstackParse(html)
      [] platform = "beehiiv"    -> BeehiivParse(html)
      [] platform = "tldr"       -> TldrParse(html)
      [] platform = "convertkit" -> ConvertKitParse(html)
      [] OTHER                   -> GenericParse(html)

\* parse_gmail_message: the parsed dict.  Its keys are exactly the fields of
\* this record; an exception anywhere in the body gives the error result
\* with the placeholders 'Unknown', 'unknown', 'Error' and ''.
parse_gmail_message(msg) ==
    LET headers == msg.payload.headers
        sender == parse_sender(HeaderGet(headers, "From", <<>>))
        subject == HeaderGet(headers, "Subject", <<"N", "o", " ", "S", "u", "b", "j", "e", "c", "t">>)
        date == HeaderGet(headers, "Date", EmptyDate)
        body == extract_html_body(msg.payload)
    IN  IF body.kind = "raise"
        THEN create_error_result(msg.id, <<"U", "n", "k", "n", "o", "w", "n">>, <<"u", "n", "k", "n", "o", "w", "n">>, <<"E", "r", "r", "o", "r">>,
                                 EmptyDate, "binascii.Error")
        ELSE IF ~Truthy(body)
        THEN create_error_result(msg.id, sender.name, sender.email, subject, date,
                                 "No HTML content found")
        ELSE LET platform == detect_platform(sender.email, body.doc)
                 parsed_content == route_to_parser(platform, body.doc)
             IN  [message_id      |-> msg.id,
                  sender_name     |-> sender.name,
                  sender_email    |-> sender.email,
                  subject         |-> subject,
                  date            |-> date,
                  platform        |-> platform,
                  category        |-> determine_category(sender.name, sender.email),
                  content         |-> parsed_content.content,
                  title           |-> parsed_content.title,
                  sections        |-> parsed_content.sections,
                  links           |-> parsed_content.links,
                  images          |-> parsed_content.images,
                  metadata        |-> parsed_content.metadata,
                  parsing_success |-> TRUE,
                  needs_review    |-> parsed_content.needs_review]

MinContentLen == 100
MaxBlankRuns == 5

\* the number of characters c of s with c.isalnum() or c.isspace()
ReadableChars(s) ==
    Cardinality({i \in 1..Len(s) : IsAlnum(s[i]) \/ IsSpace(s[i])})

\* validate_parsed_content: the checks
validation_checks(parsed_data) ==
    LET content == parsed_data.content IN
    [has_content |-> Len(content) > MinContentLen,
     has_sentences |-> \E i \in 1..Len(content) : content[i] \in {".", "!", "?"},
     no_excessive_whitespace |-> CountBlankRuns(content) < MaxBlankRuns,
     \* readable_chars / len(content) > 0.7, True for empty content
     readable_ratio |-> IF content # <<>>
                        THEN 10 * ReadableChars(content) > 7 * Len(content)
                        ELSE TRUE]

\* validate_parsed_content: is_valid = all(checks.values())
validate_parsed_content(parsed_data) ==
    LET checks == validation_checks(parsed_data) IN
    \A k \in DOMAIN checks : checks[k]

-----------------------------------------------------------------------------
(* The mailbox behind the Gmail API: messages().get(id) of every message   *)
(* id a listing can return.                                                *)

ClockStart == 1000       \* the clock, in hours, when the process starts
MaxTicks == 1            \* how many hours the clock may advance
MaxRuns == 2             \* how many ingestion runs may be started
MaxListing == 2          \* the longest message listing

H(name, value) == [name |-> name, value |-> value]
Part(mime, data, parts) == [mimeType |-> mime, data |-> data, parts |-> parts]

\* <h1>Title</h1><p>Body...</p>
DocClean == <<El("h1", <<"T", "i", "t", "l", "e">>), El("p", <<"B", "o", "d", "y", ".", ".", ".">>)>>
\* the document of test_parser.py
DocShort == <<El("h1", <<"H", "o", "w", " ", "t", "o", " ", "b", "u", "i", "l", "d">>), El("p", <<"T", "h", "i", "s", " ", "i", "s", " ", "a", " ", "t", "e", "s", "t", ".", ".", ".">>)>>
DocLong ==
    <<El("h1", <<"A", "g", "g", "r", "e", "g", "a", "t", "i", "o", "n">>),
      El("p", <<"A", "g", "g", "r", "e", "g", "a", "t", "i", "o", "n", " ", "t", "h", "e", "o", "r", "y", " ", "e", "x", "p", "l", "a", "i", "n", "s", " ", "w", "h", "y", " ", "t", "h", "e", " ", "l", "a", "r", "g", "e", "s", "t", " ", "p", "l", "a", "t", "f", "o", "r", "m", "s", " ", "w", "i", "n", ".", " ", "S", "u", "p", "p", "l", "i", "e", "r", "s", " ", "c", "o", "m", "m", "o", "d", "i", "t", "i", "z", "e", " ", "a", "n", "d", " ", "u", "s", "e", "r", "s", " ", "c", "o", "n", "c", "e", "n", "t", "r", "a", "t", "e", ".">>),
      ElA("a", <<"R", "e", "a", "d", " ", "m", "o", "r", "e">>, <<"h", "t", "t", "p", "s", ":", "/", "/", "e", "x", "a", "m", "p", "l", "e", ".", "o", "r", "g", "/", "a">>)>>

\* a clean stratechery issue, the HTML as the payload itself
Msg1 ==
    [id |-> <<"1">>,
     payload |-> [headers |-> <<H("From", <<"S", "t", "r", "a", "t", "e", "c", "h", "e", "r", "y", " ", "<", "n", "e", "w", "s", "@", "s", "t", "r", "a", "t", "e", "c", "h", "e", "r", "y", ".", "c", "o", "m", ">">>),
                                H("Subject", <<"U", "p", "d", "a", "t", "e">>),
                                H("Date", [kind |-> "aware", t |-> ClockStart - 10, off |-> -8])>>,
                  mimeType |-> "text/html", data |-> HtmlData(DocClean), parts |-> <<>>]]

\* the message of test_parser.py, its Date with the zone -0000
Msg2 ==
    [id |-> <<"2">>,
     payload |-> [headers |-> <<H("From", <<"L", "e", "n", "n", "y", " ", "R", "a", "c", "h", "i", "t", "s", "k", "y", " ", "<", "l", "e", "n", "n", "y", "@", "s", "u", "b", "s", "t", "a", "c", "k", ".", "c", "o", "m", ">">>),
                                H("Subject", <<"H", "o", "w", " ", "t", "o", " ", "b", "u", "i", "l", "d", " ", "w", "i", "t", "h", " ", "A", "I", " ", "t", "o", "o", "l", "s">>),
                                H("Date", [kind |-> "naive", t |-> ClockStart - 10, off |-> 0])>>,
                  mimeType |-> "multipart/alternative", data |-> NoData,
                  parts |-> <<Part("text/plain", PlainData, <<>>),
                              Part("text/html", HtmlData(DocShort), <<>>)>>]]

\* a plain-text message: no text/html part, no Subject and no Date header
Msg3 ==
    [id |-> <<"3">>,
     payload |-> [headers |-> <<H("From", <<"p", "l", "a", "i", "n", "@", "e", "x", "a", "m", "p", "l", "e", ".", "o", "r", "g">>)>>,
                  mimeType |-> "multipart/alternative", data |-> NoData,
                  parts |-> <<Part("text/plain", PlainData, <<>>)>>]]

\* an unknown sender, the HTML in a nested part, a Date that does not parse
Msg4 ==
    [id |-> <<"4">>,
     payload |-> [headers |-> <<H("From", <<"W", "e", "e", "k", "l", "y", " ", "N", "o", "t", "e", "s", " ", "<", "h", "i", "@", "e", "x", "a", "m", "p", "l", "e", ".", "o", "r", "g", ">">>),
                                H("Subject", <<"N", "o", "t", "e", "s">>),
                                H("Date", [kind |-> "bad", t |-> 0, off |-> 0])>>,
                  mimeType |-> "multipart/mixed", data |-> NoData,
                  parts |-> <<Part("multipart/alternative", NoData,
                                   <<Part("text/html", HtmlData(DocLong), <<>>)>>)>>]]

Messages == {Msg1, Msg2, Msg3, Msg4}
MessageIds == {m.id : m \in Messages}
Mailbox(id) == CHOOSE m \in Messages : m.id = id

\* self.parser.parse_gmail_message(msg) of every message of the mailbox
ParsedMailbox == [id \in MessageIds |-> parse_gmail_message(Mailbox(id))]

\* what messages().list() can return: up to MaxListing message references
Listings == UNION {[1..n -> MessageIds] : n \in 0..MaxListing}

\* the owner_email arguments: None, and addresses in several spellings
RawOwners == {<<>>, <<"a", "@", "x">>, <<" ", "A", "@", "x", " ">>}

-----------------------------------------------------------------------------
(* database.py: the newsletters table                                      *)

\* a table whose only key is the primary key
PrimaryKeyOnly(rows) ==
    \A x, y \in rows : x.id = y.id => x = y

\* message_id = Column(String, unique=True, ...), id the primary key
UniqueMessageIds(rows) ==
    \A x, y \in rows : (x.message_id = y.message_id \/ x.id = y.id) => x = y

\* a row an earlier deployment left in the table (init_db keeps the rows it
\* finds and _ensure_owner_email_column patches them)
StoredRow(id, owner, mid, received, category, review) ==
    [id              |-> id,
     message_id      |-> owner \o <<":", ":">> \o mid,
     owner_email     |-> owner,
     sender_name     |-> <<"S", "e", "n", "d", "e", "r">>,
     sender_email    |-> <<"s", "@", "e", "x", "a", "m", "p", "l", "e", ".", "o", "r", "g">>,
     subject         |-> <<"S", "u", "b", "j", "e", "c", "t">>,
     date            |-> EmptyDate,
     received_at     |-> received,
     platform        |-> "generic",
     category        |-> category,
     raw_html        |-> DocClean,
     parsed_content  |-> <<"T", "i", "t", "l", "e">>,
     title           |-> <<"T", "i", "t", "l", "e">>,
     sections        |-> <<>>,
     links           |-> <<>>,
     images          |-> <<>>,
     extra_metadata  |-> [platform |-> "generic"],
     parsing_success |-> TRUE,
     needs_review    |-> review]

retention_days == 10
RetentionHours == 24 * retention_days

CandidateRows ==
    {StoredRow(1, <<"a", "@", "x">>, <<"1">>, ClockStart - RetentionHours - 1, "product_ai", FALSE),
     StoredRow(2, <<"b", "@", "x">>, <<"1">>, ClockStart - RetentionHours, "finance", TRUE),
     StoredRow(3, <<"a", "@", "x">>, <<"1">>, ClockStart - 7, "finance", FALSE)}

\* the tables the schema admits when the process starts
InitialStores == {rows \in SUBSET CandidateRows : UniqueMessageIds(rows)}

-----------------------------------------------------------------------------
(* newsletter_service.py: NewsletterService                                *)

\* normalize_owner_email: (owner_email or "").strip().lower() or the default
normalize_owner_email(owner_email) ==
    LET candidate == Lower(Strip(owner_email)) IN
    IF candidate = <<>> THEN DEFAULT_OWNER_EMAIL ELSE candidate

\* f"{owner_email}::{message['id']}"
ScopedId(owner_email, id) == owner_email \o <<":", ":">> \o id

\* db.query(Newsletter).filter(Newsletter.message_id == sid).first()
Existing(rows, sid) == {x \in rows : x.message_id = sid}

ZeroStats ==
    [total_fetched |-> 0, already_exists |-> 0, newly_parsed |-> 0,
     parse_errors |-> 0, by_category |-> [c \in {} |-> 0]]

NoParsed == [message_id |-> <<>>]

IdleRun ==
    [pc |-> "idle", owner |-> <<>>, messages |-> <<>>, i |-> 0,
     stats |-> ZeroStats, parsed |-> NoParsed, is_valid |-> FALSE,
     received |-> 0, out |-> "none"]

\* the loop header `for message in messages`: the next message, or
\* `return stats` after the last one
NextMessage(rs) ==
    [rs EXCEPT !.i = rs.i + 1,
               !.pc = IF rs.i + 1 > Len(rs.messages) THEN "done" ELSE "lookup",
               !.parsed = NoParsed, !.is_valid = FALSE, !.received = 0]

\* a loop without the `except Exception`: the failure leaves the run
MessageFailedAborts(rs, why) == [rs EXCEPT !.pc = "raised", !.out = why]

\* an except branch that skips the message without counting it
MessageFailedUncounted(rs, why) == [NextMessage(rs) EXCEPT !.out = why]

\* `except Exception`: count the message as a parse error and continue
MessageFailed(rs, why) ==
    [NextMessage(rs) EXCEPT !.stats.parse_errors = @ + 1, !.out = why]

\* a failure before the loop that is swallowed: the run returns its stats
RunReturnsStats(rs, why) == [rs EXCEPT !.pc = "done", !.out = why]

\* an exception that leaves extract_newsletters: authenticate_gmail raising,
\* or the listing failing (HttpError re-raised as Exception)
RunRaised(rs, why) == [rs EXCEPT !.pc = "raised", !.out = why]

\* received_datetime: the Date header through parsedate_to_datetime and
\* astimezone(timezone.utc), which reads a naive datetime as local time of
\* the host; datetime.utcnow() when the header is empty or does not parse
received_datetime(date, clock, zone) ==
    CASE date.kind = "aware" -> date.t - date.off
      [] date.kind = "naive" -> date.t - zone
      [] OTHER               -> clock

\* the id a new row gets
NextId(rows) ==
    IF rows = {} THEN 1
    ELSE 1 + CHOOSE n \in {x.id : x \in rows} : \A x \in rows : x.id <= n

\* stats['by_category'][category] += 1, starting from 0
CountCategory(by_category, category) ==
    IF category \in DOMAIN by_category
    THEN [by_category EXCEPT ![category] = @ + 1]
    ELSE by_category @@ (category :> 1)

\* Newsletter(message_id=..., ..., raw_html=parsed['raw_html'], ...)
NewRow(rs, rows) ==
    [id              |-> NextId(rows),
     message_id      |-> ScopedId(rs.owner, rs.messages[rs.i]),
     owner_email     |-> rs.owner,
     sender_name     |-> rs.parsed.sender_name,
     sender_email    |-> rs.parsed.sender_email,
     subject         |-> rs.parsed.subject,
     date            |-> rs.parsed.date,
     received_at     |-> rs.received,
     platform        |-> rs.parsed.platform,
     category        |-> rs.parsed.category,
     raw_html        |-> rs.parsed.raw_html,
     parsed_content  |-> rs.parsed.content,
     title           |-> rs.parsed.title,
     sections        |-> rs.parsed.sections,
     links           |-> rs.parsed.links,
     images          |-> rs.parsed.images,
     extra_metadata  |-> rs.parsed.metadata,
     parsing_success |-> rs.parsed.parsing_success,
     needs_review    |-> rs.parsed.needs_review]

\* `key in parsed`: the keys of the dict parse_gmail_message returned
HasKey(parsed, key) == key \in DOMAIN parsed

NoResp == [op |-> "none", caller |-> <<>>, result |-> 0]

\* extract_newsletters up to the listing: the owner is normalized and, as
\* the service is new, authenticate_gmail runs; its exception leaves the call
Begin(r) ==
    /\ run[r].pc \in {"idle", "done", "raised"}
    /\ nruns < MaxRuns
    /\ \E owner_email \in RawOwners, ok \in BOOLEAN :
          LET rs == [IdleRun EXCEPT !.owner = normalize_owner_email(owner_email)] IN
          run' = [run EXCEPT ![r] =
                     IF ok THEN [rs EXCEPT !.pc = "listing", !.out = "authenticated"]
                     ELSE RunRaised(rs, "auth_error")]
    /\ nruns' = nruns + 1
    /\ UNCHANGED <<db, now, tz, resp, pmsg, pstage, pres, app, daily, call>>

\* messages().list(...).execute(): the listing, or an error of the API
ListMessages(r) ==
    /\ run[r].pc = "listing"
    /\ \/ run' = [run EXCEPT ![r] = RunRaised(run[r], "list_error")]
       \/ \E messages \in Listings :
             run' = [run EXCEPT ![r] =
                        NextMessage([run[r] EXCEPT !.messages = messages,
                                                   !.i = 0,
                                                   !.stats.total_fetched = Len(messages),
                                                   !.out = "listed"])]
    /\ UNCHANGED <<db, now, tz, nruns, resp, pmsg, pstage, pres, app, daily, call>>

\* a lookup that deletes the row it finds, to store the message anew
DedupLookupReplaces(r) ==
    LET rs == run[r]
        sid == ScopedId(rs.owner, rs.messages[rs.i])
    IN  /\ rs.pc = "lookup"
        /\ \/ /\ run' = [run EXCEPT ![r] = MessageFailed(rs, "lookup_error")]
              /\ db' = db
           \/ /\ db' = db \ Existing(db, sid)
              /\ run' = [run EXCEPT ![r] = [rs EXCEPT !.pc = "fetch", !.out = "absent"]]
        /\ UNCHANGED <<now, tz, nruns, resp, pmsg, pstage, pres, app, daily, call>>

\* the dedup lookup of one message: an existing row counts the message as
\* already_exists and skips it
DedupLookup(r) ==
    LET rs == run[r]
        sid == ScopedId(rs.owner, rs.messages[rs.i])
    IN  /\ rs.pc = "lookup"
        /\ \/ run' = [run EXCEPT ![r] = MessageFailed(rs, "lookup_error")]
           \/ /\ Existing(db, sid) # {}
              /\ run' = [run EXCEPT ![r] =
                            [NextMessage(rs) EXCEPT !.stats.already_exists = @ + 1,
                                                    !.out = "exists"]]
           \/ /\ Existing(db, sid) = {}
              /\ run' = [run EXCEPT ![r] = [rs EXCEPT !.pc = "fetch", !.out = "absent"]]
        /\ UNCHANGED <<db, now, tz, nruns, resp, pmsg, pstage, pres, app, daily, call>>

\* messages().get(...), parse_gmail_message, validate_parsed_content and
\* the date handling of one message
FetchAndParse(r) ==
    LET rs == run[r]
        parsed == ParsedMailbox[rs.messages[rs.i]]
    IN  /\ rs.pc = "fetch"
        /\ \/ run' = [run EXCEPT ![r] = MessageFailed(rs, "fetch_error")]
           \/ run' = [run EXCEPT ![r] =
                         [rs EXCEPT !.pc = "persist",
                                    !.parsed = parsed,
                                    !.is_valid = validate_parsed_content(parsed),
                                    !.received = received_datetime(parsed.date, now, tz),
                                    !.out = "parsed"]]
        /\ UNCHANGED <<db, now, tz, nruns, resp, pmsg, pstage, pres, app, daily, call>>

\* Newsletter(...), db.add, db.commit and the statistics of one message.
\* Building the row reads parsed['raw_html']: a KeyError when the parser
\* gave no such key.  A commit that fails (the unique constraint, the
\* database) is rolled back.
Persist(r) ==
    LET rs == run[r] IN
    /\ rs.pc = "persist"
    /\ IF ~HasKey(rs.parsed, "raw_html")
       THEN /\ run' = [run EXCEPT ![r] = MessageFailed(rs, "KeyError")]
            /\ db' = db
       ELSE LET row == NewRow(rs, db) IN
            \/ /\ run' = [run EXCEPT ![r] = MessageFailed(rs, "commit_error")]
               /\ db' = db
            \/ /\ UniqueMessageIds(db \cup {row})
               /\ db' = db \cup {row}
               /\ run' = [run EXCEPT ![r] =
                             [NextMessage(rs) EXCEPT
                                 !.stats.newly_parsed = @ + 1,
                                 !.stats.by_category =
                                     CountCategory(@, rs.parsed.category),
                                 !.out = "stored"]]
    /\ UNCHANGED <<now, tz, nruns, resp, pmsg, pstage, pres, app, daily, call>>

\* a sweep that also deletes the rows received exactly at the cutoff
CleanupInclusive ==
    LET cutoff == now - RetentionHours
        old == {x \in db : x.received_at <= cutoff}
    IN  /\ db' = db \ old
        /\ resp' = [op |-> "cleanup", caller |-> <<>>, result |-> Cardinality(old),
                    at |-> now]
        /\ UNCHANGED <<now, tz, run, nruns, pmsg, pstage, pres, app, daily, call>>

\* cleanup_old_newsletters(db, retention_days=10); the answer is kept with
\* the utcnow() the sweep read
Cleanup ==
    LET cutoff == now - RetentionHours
        old == {x \in db : x.received_at < cutoff}
    IN  /\ db' = db \ old
        /\ resp' = [op |-> "cleanup", caller |-> <<>>, result |-> Cardinality(old),
                    at |-> now]
        /\ UNCHANGED <<now, tz, run, nruns, pmsg, pstage, pres, app, daily, call>>

\* time passes
Tick ==
    /\ now < ClockStart + MaxTicks
    /\ now' = now + 1
    /\ UNCHANGED <<db, tz, run, nruns, resp, pmsg, pstage, pres, app, daily, call>>

NoMsg == [id |-> <<>>]
NoRes == [stage |-> "off"]

\* the application after startup_event, with nothing asked of the
\* summarization endpoints
Serving == [phase |-> "serving", startup_sweeps |-> 0]
NoDaily == [pc |-> "off"]
NoCall == [pc |-> "off"]

\* the hosts: local time is UTC, or UTC-8 (America/Los_Angeles, the zone
\* main.py falls back to)
HostZones == {0, -8}

Init ==
    /\ db \in InitialStores
    /\ now = ClockStart
    /\ tz \in HostZones
    /\ run = [r \in {1} |-> IdleRun]
    /\ nruns = 0
    /\ resp = NoResp
    /\ pmsg = NoMsg
    /\ pstage = "off"
    /\ pres = NoRes
    /\ app = Serving
    /\ daily = NoDaily
    /\ call = NoCall

Next ==
    \/ \E r \in DOMAIN run : Begin(r)
    \/ \E r \in DOMAIN run : ListMessages(r)
    \/ \E r \in DOMAIN run : DedupLookup(r)
    \/ \E r \in DOMAIN run : FetchAndParse(r)
    \/ \E r \in DOMAIN run : Persist(r)
    \/ Cleanup
    \/ Tick

Spec == Init /\ [][Next]_vars

-----------------------------------------------------------------------------
(* The record queries: main.py's list_newsletters, get_newsletter and      *)
(* get_categories over NewsletterService.  A query argument that may be    *)
(* None is a set: {} for None, {v} for the value v.  The caller is the     *)
(* owner on whose behalf the request is made; no endpoint takes it.        *)

\* order_by(Newsletter.received_at.desc())
RECURSIVE NewestFirst(_)
NewestFirst(rows) ==
    IF rows = {} THEN <<>>
    ELSE LET x == CHOOSE y \in rows : \A z \in rows : z.received_at <= y.received_at
         IN  <<x>> \o NewestFirst(rows \ {x})

\* NewsletterService.get_newsletters
get_newsletters(rows, category, start_date, end_date, limit, offset) ==
    LET hits == {x \in rows :
                    /\ \A c \in category : c = "" \/ x.category = c
                    /\ \A t \in start_date : x.received_at >= t
                    /\ \A t \in end_date : x.received_at <= t}
        sorted == NewestFirst(hits)
    IN  SubSeq(sorted, offset + 1,
               IF offset + limit < Len(sorted) THEN offset + limit ELSE Len(sorted))

\* NewsletterService.get_newsletter_by_id: the row, or None
get_newsletter_by_id(rows, newsletter_id) == {x \in rows : x.id = newsletter_id}

\* NewsletterService.get_categories: GROUP BY category with COUNT(id)
get_categories(rows) ==
    {[category |-> c, count |-> Cardinality({x \in rows : x.category = c})] :
        c \in {x.category : x \in rows}}

Callers == {normalize_owner_email(o) : o \in RawOwners \cup {<<"b", "@", "x">>}}
QueryCategories == {{}, {"product_ai"}, {"finance"}}
QueryDates == {{}, {ClockStart - RetentionHours}}
MaxLimit == 2            \* the largest limit and offset a request asks for

ListNewsletters ==
    \E caller \in Callers, category \in QueryCategories,
       start_date \in QueryDates, end_date \in QueryDates,
       limit \in 1..MaxLimit, offset \in 0..MaxLimit :
        /\ resp' = [op |-> "get_newsletters", caller |-> caller,
                    result |-> get_newsletters(db, category, start_date, end_date,
                                               limit, offset)]
        /\ UNCHANGED <<db, now, tz, run, nruns, pmsg, pstage, pres, app, daily, call>>

GetNewsletter ==
    \E caller \in Callers, newsletter_id \in 1..Cardinality(CandidateRows) :
        /\ resp' = [op |-> "get_newsletter_by_id", caller |-> caller,
                    result |-> get_newsletter_by_id(db, newsletter_id)]
        /\ UNCHANGED <<db, now, tz, run, nruns, pmsg, pstage, pres, app, daily, call>>

GetCategories ==
    \E caller \in Callers :
        /\ resp' = [op |-> "get_categories", caller |-> caller,
                    result |-> get_categories(db)]
        /\ UNCHANGED <<db, now, tz, run, nruns, pmsg, pstage, pres, app, daily, call>>

QueryNext == ListNewsletters \/ GetNewsletter \/ GetCategories \/ Cleanup \/ Tick

\* the record queries and the sweep over every table the schema admits
QuerySpec == Init /\ [][QueryNext]_vars

-----------------------------------------------------------------------------
(* parse_gmail_message step by step, over a family of messages: every      *)
(* From header below with every document and every shape of the payload.   *)

FromHeaders ==
    {<<"S", "t", "r", "a", "t", "e", "c", "h", "e", "r", "y", " ", "<", "n", "e", "w", "s", "@", "s", "t", "r", "a", "t", "e", "c", "h", "e", "r", "y", ".", "c", "o", "m", ">">>,
     <<"n", "e", "w", "s", "@", "s", "t", "r", "a", "t", "e", "c", "h", "e", "r", "y", ".", "c", "o", "m">>,
     <<"L", "e", "n", "n", "y", " ", "R", "a", "c", "h", "i", "t", "s", "k", "y", " ", "<", "l", "e", "n", "n", "y", "@", "s", "u", "b", "s", "t", "a", "c", "k", ".", "c", "o", "m", ">">>,
     <<"W", "e", "e", "k", "l", "y", " ", "N", "o", "t", "e", "s", " ", "<", "h", "i", "@", "e", "x", "a", "m", "p", "l", "e", ".", "o", "r", "g", ">">>,
     <<"\"", "S", "a", "h", "i", "l", " ", "B", "l", "o", "o", "m", "\"", " ", "<", "s", "a", "h", "i", "l", "@", "k", "i", "t", "-", "m", "a", "i", "l", ".", "c", "o", "m", ">">>,
     <<"T", "L", "D", "R", " ", "A", "I", " ", "<", "d", "a", "n", "@", "t", "l", "d", "r", "n", "e", "w", "s", "l", "e", "t", "t", "e", "r", ".", "c", "o", "m", ">">>,
     <<"M", "o", "r", "n", "i", "n", "g", " ", "S", "h", "a", "k", "e", "o", "u", "t", " ", "<", "m", "a", "r", "i", "o", "@", "m", "a", "i", "l", ".", "b", "e", "e", "h", "i", "i", "v", ".", "c", "o", "m", ">">>,
     <<"S", "n", "a", "c", "k", "s", " ", "D", "a", "i", "l", "y", " ", "<", "t", "l", "d", "r", "@", "s", "n", "a", "c", "k", "s", ".", "e", "x", "a", "m", "p", "l", "e", ">">>,
     <<"C", "H", "A", "R", "T", "R", " ", "<", "H", "e", "l", "l", "o", "@", "C", "h", "a", "r", "t", "r", ".", "c", "o", ">">>}

\* nothing but a script, a style sheet and an image: no text to extract
DocNoText ==
    <<El("script", <<"v", "a", "r", " ", "a", " ", "=", " ", "1", ";">>), El("style", <<"p", " ", "{", " ", "c", "o", "l", "o", "r", ":", " ", "r", "e", "d", " ", "}">>),
      ElA("img", <<>>, <<"h", "t", "t", "p", "s", ":", "/", "/", "e", "x", "a", "m", "p", "l", "e", ".", "o", "r", "g", "/", "i", ".", "p", "n", "g">>)>>
\* headings with paragraphs, a footer, a link and a platform signature
DocSections ==
    <<El("h1", <<" ", "W", "e", "e", "k", "l", "y", " ">>), El("h2", <<"B", "i", "g", " ", "n", "e", "w", "s">>),
      El("p", <<"T", "h", "e", " ", "f", "i", "r", "s", "t", " ", "s", "t", "o", "r", "y", " ", "o", "f", " ", "t", "h", "e", " ", "w", "e", "e", "k", " ", "i", "s", " ", "h", "e", "r", "e", ".">>),
      El("h3", <<"*", " ", "M", "o", "r", "e">>), El("p", <<>>),
      ElA("a", <<"U", "n", "s", "u", "b", "s", "c", "r", "i", "b", "e">>, <<"h", "t", "t", "p", "s", ":", "/", "/", "a", "p", "p", ".", "c", "o", "n", "v", "e", "r", "t", "k", "i", "t", ".", "c", "o", "m", "/", "u">>),
      ElA("a", <<"M", "a", "i", "l", " ", "u", "s">>, <<"m", "a", "i", "l", "t", "o", ":", "h", "i", "@", "e", "x", "a", "m", "p", "l", "e", ".", "o", "r", "g">>),
      El("footer", <<"S", "e", "n", "t", " ", "w", "i", "t", "h", " ", "c", "a", "r", "e">>)>>
\* a document that carries the beehiiv signature in a link
DocBeehiiv ==
    <<El("h1", <<"D", "a", "i", "l", "y">>), El("p", <<"#", " ", "T", "o", "p", " ", "s", "t", "o", "r", "i", "e", "s", " ", "t", "o", "d", "a", "y">>),
      ElA("a", <<"R", "e", "a", "d", " ", "o", "n", "l", "i", "n", "e">>, <<"h", "t", "t", "p", "s", ":", "/", "/", "w", "w", "w", ".", "b", "e", "e", "h", "i", "i", "v", ".", "c", "o", "m", "/", "r">>)>>

Documents == {DocClean, DocShort, DocLong, DocNoText, DocSections, DocBeehiiv}

\* the payload shapes: the HTML as the payload itself, as a part after a
\* text/plain part, in a nested part, absent, and with corrupt base64 data
Payloads(headers, doc) ==
    {[headers |-> headers, mimeType |-> "text/html", data |-> HtmlData(doc),
      parts |-> <<>>],
     [headers |-> headers, mimeType |-> "multipart/alternative", data |-> NoData,
      parts |-> <<Part("text/plain", PlainData, <<>>),
                  Part("text/html", HtmlData(doc), <<>>)>>],
     [headers |-> headers, mimeType |-> "multipart/mixed", data |-> NoData,
      parts |-> <<Part("multipart/alternative", NoData,
                       <<Part("text/html", NoData, <<>>),
                         Part("text/html", HtmlData(doc), <<>>)>>)>>],
     [headers |-> headers, mimeType |-> "multipart/alternative", data |-> NoData,
      parts |-> <<Part("text/plain", PlainData, <<>>)>>],
     [headers |-> headers, mimeType |-> "multipart/alternative", data |-> NoData,
      parts |-> <<Part("text/html", CorruptData, <<>>)>>]}

HeaderSets(from) ==
    {<<H("From", from), H("Subject", <<"U", "p", "d", "a", "t", "e">>)>>,
     <<H("From", from)>>}

ParserInputs ==
    {[id |-> <<"9">>, payload |-> pl] :
        pl \in UNION {Payloads(hs, doc) :
                        hs \in UNION {HeaderSets(f) : f \in FromHeaders},
                        doc \in Documents}}

\* headers, sender, subject, date and the HTML body
PRead ==
    /\ pstage = "start"
    /\ LET headers == pmsg.payload.headers IN
       pres' = [sender  |-> parse_sender(HeaderGet(headers, "From", <<>>)),
                subject |-> HeaderGet(headers, "Subject", <<"N", "o", " ", "S", "u", "b", "j", "e", "c", "t">>),
                date    |-> HeaderGet(headers, "Date", EmptyDate),
                body    |-> extract_html_body(pmsg.payload)]
    /\ pstage' = "body"
    /\ UNCHANGED <<db, now, tz, run, nruns, resp, pmsg, app, daily, call>>

\* `if not html_body`, and the `except Exception` of the whole function
PNoBody ==
    /\ pstage = "body"
    /\ ~Truthy(pres.body)
    /\ pres' = pres @@
          [result |->
              IF pres.body.kind = "raise"
              THEN create_error_result(pmsg.id, <<"U", "n", "k", "n", "o", "w", "n">>, <<"u", "n", "k", "n", "o", "w", "n">>, <<"E", "r", "r", "o", "r">>,
                                       EmptyDate, "binascii.Error")
              ELSE create_error_result(pmsg.id, pres.sender.name, pres.sender.email,
                                       pres.subject, pres.date,
                                       "No HTML content found")]
    /\ pstage' = "done"
    /\ UNCHANGED <<db, now, tz, run, nruns, resp, pmsg, app, daily, call>>

PDetect ==
    /\ pstage = "body"
    /\ Truthy(pres.body)
    /\ pres' = pres @@ [platform |-> detect_platform(pres.sender.email, pres.body.doc)]
    /\ pstage' = "platform"
    /\ UNCHANGED <<db, now, tz, run, nruns, resp, pmsg, app, daily, call>>

PRoute ==
    /\ pstage = "platform"
    /\ pres' = pres @@
          [parsed_content |-> route_to_parser(pres.platform, pres.body.doc)]
    /\ pstage' = "content"
    /\ UNCHANGED <<db, now, tz, run, nruns, resp, pmsg, app, daily, call>>

\* the category and the result dict
PBuild ==
    /\ pstage = "content"
    /\ pres' = pres @@
          [result |->
              [message_id      |-> pmsg.id,
               sender_name     |-> pres.sender.name,
               sender_email    |-> pres.sender.email,
               subject         |-> pres.subject,
               date            |-> pres.date,
               platform        |-> pres.platform,
               category        |-> determine_category(pres.sender.name,
                                                      pres.sender.email),
               content         |-> pres.parsed_content.content,
               title           |-> pres.parsed_content.title,
               sections        |-> pres.parsed_content.sections,
               links           |-> pres.parsed_content.links,
               images          |-> pres.parsed_content.images,
               metadata        |-> pres.parsed_content.metadata,
               parsing_success |-> TRUE,
               needs_review    |-> pres.parsed_content.needs_review]]
    /\ pstage' = "done"
    /\ UNCHANGED <<db, now, tz, run, nruns, resp, pmsg, app, daily, call>>

ParserInit ==
    /\ db = {}
    /\ now = ClockStart
    /\ tz = 0
    /\ run = [r \in {1} |-> IdleRun]
    /\ nruns = 0
    /\ resp = NoResp
    /\ pmsg \in ParserInputs
    /\ pstage = "start"
    /\ pres = NoRes
    /\ app = Serving
    /\ daily = NoDaily
    /\ call = NoCall

ParserNext == PRead \/ PNoBody \/ PDetect \/ PRoute \/ PBuild

\* the parser over the family of messages
ParserSpec == ParserInit /\ [][ParserNext]_vars

\* the steps above compute what parse_gmail_message returns
ParserStepsAgree ==
    pstage = "done" => pres.result = parse_gmail_message(pmsg)

-----------------------------------------------------------------------------
(* Properties of ingestion                                                 *)

\* the failures of one message that the loop's `except Exception` catches
PerMessageFailures == {"lookup_error", "fetch_error", "KeyError", "commit_error"}

\* C1: ingesting a message twice leaves exactly one record of it.  A message
\* with no row yet that was fetched and parsed, and whose commit the
\* database did not refuse, is counted in newly_parsed and has exactly one
\* row afterwards; a message that has a row is counted in already_exists,
\* not in newly_parsed, and adds no row.
C1_IngestTwiceOneRecord ==
    [][\A r \in DOMAIN run :
          LET a == run[r]
              b == run'[r]
              sid == ScopedId(a.owner, a.messages[a.i])
          IN  /\ (a.pc = "persist" /\ b # a /\ b.out # "commit_error") =>
                    /\ b.stats.newly_parsed = a.stats.newly_parsed + 1
                    /\ b.stats.already_exists = a.stats.already_exists
                    /\ Cardinality(Existing(db', sid)) = 1
              /\ (a.pc = "lookup" /\ b # a /\ Existing(db, sid) # {}
                    /\ b.out # "lookup_error") =>
                    /\ b.stats.already_exists = a.stats.already_exists + 1
                    /\ b.stats.newly_parsed = a.stats.newly_parsed
                    /\ db' = db]_vars

\* C2: whatever ingestion runs and retention sweeps have happened, no two
\* rows of the table have the same message_id (the scoped identifier).
C2_ScopedIdsUnique ==
    \A x, y \in db : x.message_id = y.message_id => x = y

\* a sweep has run and a run has finished over a listing that names the
\* same message twice, with two rows in the table
C2_Witness ==
    /\ resp.op = "cleanup"
    /\ Cardinality(db) = 2
    /\ \E r \in DOMAIN run :
          /\ run[r].pc = "done"
          /\ Len(run[r].messages) = 2
          /\ run[r].messages[1] = run[r].messages[2]
          /\ run[r].stats.already_exists = 2

\* C4: a failure while one message is processed (the lookup, the fetch, the
\* parse, the date, the row, the commit) adds one to parse_errors and the
\* loop goes on with the next message of the listing; only a failure of the
\* authentication or of the listing leaves the run, and a run that returns
\* has gone through every message of its listing.
C4_MessageFailureCountedLoopContinues ==
    [][\A r \in DOMAIN run :
          LET a == run[r]
              b == run'[r]
          IN  /\ (a.pc \in {"lookup", "fetch", "persist"} /\ b # a
                    /\ b.out \in PerMessageFailures) =>
                    /\ b.stats.parse_errors = a.stats.parse_errors + 1
                    /\ b.messages = a.messages
                    /\ b.i = a.i + 1
                    /\ b.pc = IF a.i < Len(a.messages) THEN "lookup" ELSE "done"
              /\ (b.pc = "raised") => b.out \in {"auth_error", "list_error"}
              /\ (b.pc = "done") =>
                    /\ b.i = Len(b.messages) + 1
                    /\ b.stats.total_fetched = Len(b.messages)
                    /\ b.stats.parse_errors + b.stats.already_exists
                          + b.stats.newly_parsed = Len(b.messages)]_vars

\* a run has returned its stats after its first message failed and its
\* second message, which has a row, was counted in already_exists
C4_Witness ==
    \E r \in DOMAIN run :
       /\ run[r].pc = "done"
       /\ Len(run[r].messages) = 2
       /\ Existing(db, ScopedId(run[r].owner, run[r].messages[1])) = {}
       /\ Existing(db, ScopedId(run[r].owner, run[r].messages[2])) # {}
       /\ run[r].stats.parse_errors = 1
       /\ run[r].stats.already_exists = 1
       /\ run[r].out = "exists"

\* C5: when the authentication or the listing fails, the call ends with the
\* exception, before any message was processed, and the step leaves the
\* table as it was.
C5_SourceFailureRaisesStoreUnchanged ==
    [][\A r \in DOMAIN run :
          LET a == run[r]
              b == run'[r]
          IN  (b # a /\ b.out \in {"auth_error", "list_error"}) =>
                 /\ b.pc = "raised"
                 /\ db' = db
                 /\ a.pc \in {"idle", "done", "raised", "listing"}
                 /\ b.i = 0
                 /\ b.stats = ZeroStats]_vars

\* the listing of a run failed over a table that holds rows
C5_Witness ==
    \E r \in DOMAIN run :
       /\ run[r].pc = "raised"
       /\ run[r].out = "list_error"
       /\ db # {}

\* C6: the received_at worked out for a message is the clock read while
\* that message is processed when its Date header is empty or does not
\* parse, and the time of the header in UTC when it parses (a header with
\* an offset is t - offset; a header written -0000 or without a zone gives
\* its time as UTC).
C6_ReceivedAtClockOrHeaderUtc ==
    [][\A r \in DOMAIN run :
          LET a == run[r]
              b == run'[r]
              date == b.parsed.date
          IN  (a.pc = "fetch" /\ b.pc = "persist") =>
                 b.received = CASE date.kind = "aware" -> date.t - date.off
                                [] date.kind = "naive" -> date.t
                                [] OTHER               -> now]_vars

\* C7: a record whose content fails validate_parsed_content goes to the
\* table with needs_review = true.
C7_InvalidContentNeedsReview ==
    \A r \in DOMAIN run :
       (run[r].pc = "persist" /\ ~run[r].is_valid) => run[r].parsed.needs_review

-----------------------------------------------------------------------------
(* Properties of the record queries                                        *)

\* C3: a record query made on behalf of an owner returns only rows of that
\* owner: every row of a get_newsletters page and the row of
\* get_newsletter_by_id belong to the caller, and get_categories counts the
\* caller's rows only.
C3_OwnerIsolation ==
    [][(resp' # resp) =>
          LET own == {x \in db : x.owner_email = resp'.caller} IN
          /\ (resp'.op = "get_newsletters") =>
                \A k \in 1..Len(resp'.result) :
                   resp'.result[k].owner_email = resp'.caller
          /\ (resp'.op = "get_newsletter_by_id") =>
                \A x \in resp'.result : x.owner_email = resp'.caller
          /\ (resp'.op = "get_categories") =>
                resp'.result = get_categories(own)]_vars

-----------------------------------------------------------------------------
(* Properties of the parser                                                *)

\* C8: a message from news@stratechery.com whose body is the clean
\* <h1>Title</h1><p>Body...</p> is parsed to platform stratechery, title
\* "Title", the category of the sender classification and
\* needs_review = false.
C8_StratecheryCleanNoReview ==
    (/\ pstage = "done"
     /\ pres.sender.email = <<"n", "e", "w", "s", "@", "s", "t", "r", "a", "t", "e", "c", "h", "e", "r", "y", ".", "c", "o", "m">>
     /\ pres.body = [kind |-> "html", doc |-> DocClean]) =>
        /\ pres.result.platform = "stratechery"
        /\ pres.result.title = <<"T", "i", "t", "l", "e">>
        /\ pres.result.category =
              determine_category(pres.sender.name, pres.sender.email)
        /\ pres.result.parsing_success = TRUE
        /\ pres.result.needs_review = FALSE

C10_GenericAlwaysNeedsReview ==
    (/\ pstage \in {"content", "done"}
     /\ "parsed_content" \in DOMAIN pres
     /\ pres.platform \notin {"substack", "beehiiv", "tldr", "convertkit"}) =>
        pres.parsed_content.needs_review = TRUE

\* the generic strategy has extracted text, a title and nothing to doubt
\* from a document of an unrecognized sender
C10_Witness ==
    /\ pstage = "content"
    /\ pres.platform = "generic"
    /\ pres.parsed_content.content # <<>>
    /\ pres.parsed_content.title # <<>>
    /\ validate_parsed_content(pres.parsed_content)
    /\ pres.parsed_content.needs_review = TRUE

\* C11: when the sender address holds the sender-domain substring of a
\* platform, the detected platform is the one of that substring (the first
\* in the order of _detect_platform when it holds several), whatever
\* platform signature the HTML body holds.
C11_SenderDomainBeforeHtmlSignature ==
    (pstage \in {"platform", "content", "done"} /\ "platform" \in DOMAIN pres) =>
        LET email_lower == Lower(pres.sender.email)
            domains == <<[sub |-> <<"s", "u", "b", "s", "t", "a", "c", "k", ".", "c", "o", "m">>, platform |-> "substack"],
                         [sub |-> <<"b", "e", "e", "h", "i", "i", "v", ".", "c", "o", "m">>, platform |-> "beehiiv"],
                         [sub |-> <<"k", "i", "t", "-", "m", "a", "i", "l">>, platform |-> "convertkit"],
                         [sub |-> <<"t", "l", "d", "r", "n", "e", "w", "s", "l", "e", "t", "t", "e", "r", ".", "c", "o", "m">>, platform |-> "tldr"],
                         [sub |-> <<"t", "l", "d", "r">>, platform |-> "tldr"],
                         [sub |-> <<"s", "t", "r", "a", "t", "e", "c", "h", "e", "r", "y", ".", "c", "o", "m">>, platform |-> "stratechery"]>>
            hits == SelectSeq(domains, LAMBDA d : Contains(email_lower, d.sub))
        IN  hits # <<>> => pres.platform = hits[1].platform

\* C12: the category of a parsed message is the category of the first
\* entry of CATEGORY_MAPPING, in table order, whose key is in the lowered
\* sender name or in the lowered sender address, and product_ai when no
\* entry is; it is always one of the four categories of the table.
C12_CategoryFirstMatchOrDefault ==
    (pstage = "done" /\ pres.result.parsing_success) =>
        LET name_lower == Lower(pres.sender.name)
            email_lower == Lower(pres.sender.email)
            hits == {k \in 1..Len(CATEGORY_MAPPING) :
                        \/ Contains(name_lower, CATEGORY_MAPPING[k].key)
                        \/ Contains(email_lower, CATEGORY_MAPPING[k].key)}
            first == CHOOSE k \in hits : \A j \in hits : k <= j
        IN  /\ pres.result.category =
                  IF hits = {} THEN "product_ai" ELSE CATEGORY_MAPPING[first].category
            /\ pres.result.category \in
                  {"product_ai", "health_fitness", "finance", "sahil_bloom"}

\* a sender written in capitals whose name and address are both in the
\* table has been given the category finance
C12_Witness ==
    /\ pstage = "done"
    /\ pres.result.parsing_success
    /\ pres.sender.name = <<"C", "H", "A", "R", "T", "R">>
    /\ pres.result.category = "finance"

-----------------------------------------------------------------------------
(* Properties of the retention sweep                                       *)

-----------------------------------------------------------------------------
(* main.py: the start of the application                                   *)

\* a row written before the table had an owner_email column: no owner, and
\* the Gmail id as its message_id
LegacyRow ==
    [StoredRow(4, <<>>, <<"7">>, ClockStart - RetentionHours - 2, "product_ai", FALSE)
        EXCEPT !.message_id = <<"7">>]

\* the tables the process can find when it starts
TablesOnDisk ==
    {rows \in SUBSET (CandidateRows \cup {LegacyRow}) : UniqueMessageIds(rows)}

\* _ensure_owner_email_column: rows without an owner get the default owner
ensure_owner_email_column(rows) ==
    {IF x.owner_email = <<>> THEN [x EXCEPT !.owner_email = DEFAULT_OWNER_EMAIL]
                             ELSE x : x \in rows}

Starting == [phase |-> "starting", startup_sweeps |-> 0]

\* startup_event: init_db() and nothing else; an exception of init_db (the
\* database cannot be opened) stops the start of the application
Startup ==
    /\ app.phase = "starting"
    /\ \/ /\ db' = ensure_owner_email_column(db)
          /\ app' = [app EXCEPT !.phase = "serving"]
       \/ /\ db' = db
          /\ app' = [app EXCEPT !.phase = "failed"]
    /\ UNCHANGED <<now, tz, run, nruns, resp, pmsg, pstage, pres, daily, call>>

\* the requests the application serves once it has started
Serve ==
    /\ app.phase = "serving"
    /\ QueryNext

StartInit ==
    /\ db \in TablesOnDisk
    /\ now = ClockStart
    /\ tz \in HostZones
    /\ run = [r \in {1} |-> IdleRun]
    /\ nruns = 0
    /\ resp = NoResp
    /\ pmsg = NoMsg
    /\ pstage = "off"
    /\ pres = NoRes
    /\ app = Starting
    /\ daily = NoDaily
    /\ call = NoCall

StartNext == Startup \/ Serve

\* the application from the start of its process
StartSpec == StartInit /\ [][StartNext]_vars

\* C14: the retention sweep runs exactly once while the application
\* starts: when startup_event has run and the application serves, one
\* sweep has been made and no row older than the retention is left.
C14_SweepOnceAtStart ==
    [][(app.phase = "starting" /\ app'.phase = "serving") =>
          /\ app'.startup_sweeps = 1
          /\ \A x \in db' : x.received_at >= now - RetentionHours]_vars

-----------------------------------------------------------------------------
(* summarization_service.py: the text of a model response                  *)

\* the first index >= from at which sub occurs in s, or 0 (str.find)
Find(s, sub, from) ==
    LET hits == {i \in from..(Len(s) - Len(sub) + 1) :
                    SubSeq(s, i, i + Len(sub) - 1) = sub}
    IN  IF hits = {} THEN 0 ELSE CHOOSE i \in hits : \A j \in hits : i <= j

\* s.split(sep)[0]
SplitFirst(s, sep) ==
    LET i == Find(s, sep, 1) IN
    IF i = 0 THEN s ELSE SubSeq(s, 1, i - 1)

\* s.split(sep)[1], for a text that holds sep
SplitSecond(s, sep) ==
    LET a == Find(s, sep, 1) + Len(sep)
        j == Find(s, sep, a)
    IN  SubSeq(s, a, IF j = 0 THEN Len(s) ELSE j - 1)

\* the character U+0060, which a TLA+ string cannot hold
Backtick == "U+0060"
Fence == <<Backtick, Backtick, Backtick>>
FenceJson == Fence \o <<"j", "s", "o", "n">>

\* the unwrapping of a markdown code block around the JSON
unwrap_code_block(response_text) ==
    IF Contains(response_text, FenceJson)
    THEN SplitFirst(SplitSecond(response_text, FenceJson), Fence)
    ELSE IF Contains(response_text, Fence)
    THEN SplitFirst(SplitSecond(response_text, Fence), Fence)
    ELSE response_text

\* ---- json.loads, for documents made of objects with at most one member,
\* ---- arrays with at most one string, and strings without escapes --------
JsonWs == {" ", "\n", "\t", "\r"}

JsonFail == [ok |-> FALSE, next |-> 0]

\* the first index >= i of s that holds no whitespace (Len(s) + 1 at the end)
SkipWs(s, i) ==
    CHOOSE j \in i..(Len(s) + 1) :
        /\ j = Len(s) + 1 \/ s[j] \notin JsonWs
        /\ \A m \in i..(j - 1) : s[m] \in JsonWs

\* a string whose opening quote is at i and whose closing quote is at j
StringFromTo(s, i, j) ==
    IF j = 0 THEN JsonFail
    ELSE IF \E m \in (i + 1)..(j - 1) : s[m] \in {"\\", "\n", "\t", "\r"} THEN JsonFail
    ELSE [ok |-> TRUE, next |-> j + 1,
          value |-> [type |-> "string", val |-> SubSeq(s, i + 1, j - 1)]]

\* a string starting at the quote at i
ScanString(s, i) ==
    IF i > Len(s) \/ s[i] # "\"" THEN JsonFail
    ELSE StringFromTo(s, i, Find(s, <<"\"">>, i + 1))

\* the end of an array that holds the string str: the bracket at k
ArrayEnd(s, str, k) ==
    IF k <= Len(s) /\ s[k] = "]"
    THEN [ok |-> TRUE, next |-> k + 1, value |-> [type |-> "array", val |-> <<str.value>>]]
    ELSE JsonFail

\* an array whose first element is the string str
ArrayOf(s, str) == IF str.ok THEN ArrayEnd(s, str, SkipWs(s, str.next)) ELSE JsonFail

\* an array whose bracket is open and that goes on at j: [] or ["..."]
ArrayAt(s, j) ==
    IF j <= Len(s) /\ s[j] = "]"
    THEN [ok |-> TRUE, next |-> j + 1, value |-> [type |-> "array", val |-> <<>>]]
    ELSE ArrayOf(s, ScanString(s, j))

\* an array starting at the bracket at i
ScanArray(s, i) == ArrayAt(s, SkipWs(s, i + 1))

\* a member value: a string or an array
ScanMemberValue(s, i) ==
    IF i > Len(s) THEN JsonFail
    ELSE IF s[i] = "\"" THEN ScanString(s, i)
    ELSE IF s[i] = "[" THEN ScanArray(s, i)
    ELSE JsonFail

\* the end of an object with the member key: v, the brace at e
ObjectEnd(s, key, v, e) ==
    IF e <= Len(s) /\ s[e] = "}"
    THEN [ok |-> TRUE, next |-> e + 1,
          value |-> [type |-> "object",
                     val |-> <<[key |-> key.value.val, value |-> v.value]>>]]
    ELSE JsonFail

\* an object with the member key: v
ObjectOf(s, key, v) == IF v.ok THEN ObjectEnd(s, key, v, SkipWs(s, v.next)) ELSE JsonFail

\* an object with the member name key, the colon at c
ObjectColon(s, key, c) ==
    IF c <= Len(s) /\ s[c] = ":"
    THEN ObjectOf(s, key, ScanMemberValue(s, SkipWs(s, c + 1)))
    ELSE JsonFail

\* an object whose first member name is the string key
ObjectKey(s, key) == IF key.ok THEN ObjectColon(s, key, SkipWs(s, key.next)) ELSE JsonFail

\* an object whose brace is open and that goes on at j: {} or {"key": value}
ObjectAt(s, j) ==
    IF j <= Len(s) /\ s[j] = "}"
    THEN [ok |-> TRUE, next |-> j + 1, value |-> [type |-> "object", val |-> <<>>]]
    ELSE ObjectKey(s, ScanString(s, j))

\* an object starting at the brace at i
ScanObject(s, i) == ObjectAt(s, SkipWs(s, i + 1))

\* the document is the value v and whitespace
WholeDocument(s, v) ==
    IF v.ok
    THEN (IF SkipWs(s, v.next) = Len(s) + 1 THEN v ELSE JsonFail)
    ELSE JsonFail

\* the value that starts at i
ScanValue(s, i) ==
    IF i <= Len(s) /\ s[i] = "{" THEN ScanObject(s, i) ELSE ScanMemberValue(s, i)

\* json.loads(s): ok is FALSE for json.JSONDecodeError
json_loads(s) == WholeDocument(s, ScanValue(s, SkipWs(s, 1)))

-----------------------------------------------------------------------------
(* summarization_service.py: SummarizationService                          *)

\* PRICING of the model the service uses, in dollars per 1M tokens; costs
\* are kept in millionths of a dollar
PRICING == [input |-> 3, output |-> 15]

\* session_stats of a new service
NewSessionStats ==
    [total_input_tokens |-> 0, total_output_tokens |-> 0, total_cost |-> 0,
     api_calls |-> 0]

\* a _log_usage that overwrites the token totals with those of the call
log_usage_last_call(session_stats, usage) ==
    [total_input_tokens  |-> usage.input_tokens,
     total_output_tokens |-> usage.output_tokens,
     total_cost          |-> session_stats.total_cost
                               + usage.input_tokens * PRICING.input
                               + usage.output_tokens * PRICING.output,
     api_calls           |-> session_stats.api_calls + 1]

\* _log_usage
log_usage(session_stats, usage) ==
    [total_input_tokens  |-> session_stats.total_input_tokens + usage.input_tokens,
     total_output_tokens |-> session_stats.total_output_tokens + usage.output_tokens,
     total_cost          |-> session_stats.total_cost
                               + usage.input_tokens * PRICING.input
                               + usage.output_tokens * PRICING.output,
     api_calls           |-> session_stats.api_calls + 1]

SummaryMaxLen == 500
CategorySummaryMaxLen == 1000

\* s[:n]
Truncate(s, n) == SubSeq(s, 1, IF Len(s) < n THEN Len(s) ELSE n)

\* an exception that leaves the method
Raised(error) == [kind |-> "raise", error |-> error]

\* a summarize_newsletter that lets json.JSONDecodeError leave the method
parse_error_raises(subject, raw) == Raised("JSONDecodeError")

\* summarize_newsletter, `except json.JSONDecodeError`: the basic structure
\* with the raw response
parse_error_result(subject, raw) ==
    [kind         |-> "fallback",
     title        |-> subject,
     summary      |-> Truncate(raw, SummaryMaxLen),
     key_points   |-> <<>>,
     sections     |-> <<>>,
     ai_generated |-> TRUE,
     parse_error  |-> TRUE]

\* summarize_newsletter after json.loads: result['ai_generated'] = True is
\* a TypeError on a list or a string
newsletter_result(parsed, raw, subject) ==
    IF ~parsed.ok THEN parse_error_result(subject, raw)
    ELSE IF parsed.value.type # "object" THEN Raised("TypeError")
    ELSE [kind |-> "summary", value |-> parsed.value.val, ai_generated |-> TRUE]

\* summarize_newsletter after the response has come: json.loads of the
\* unwrapped text
newsletter_summary(response_text, raw, subject) ==
    newsletter_result(json_loads(Strip(response_text)), raw, subject)

\* summarize_newsletter, given what client.messages.create does
summarize_newsletter(response, subject) ==
    IF response.fails THEN Raised("APIError")
    ELSE newsletter_summary(unwrap_code_block(response.text), response.text, subject)

\* a summarize_category that asks the model whatever the list holds
CategoryAlwaysNeedsModel(newsletters) == TRUE

\* summarize_category, `if not newsletters`
CategoryNeedsModel(newsletters) == newsletters # <<>>

\* the summary of a category without newsletters
EmptyCategorySummary ==
    [kind         |-> "empty",
     summary      |-> <<"N", "o", " ", "n", "e", "w", "s", "l", "e", "t", "t", "e", "r", "s", " ", "i", "n", " ", "t", "h", "i", "s", " ", "c", "a", "t", "e", "g", "o", "r", "y", ".">>,
     key_points   |-> <<>>,
     newsletters  |-> <<>>,
     ai_generated |-> TRUE]

\* summarize_category after json.loads
category_result(parsed, raw, newsletters) ==
    IF ~parsed.ok
    THEN [kind         |-> "fallback",
          summary      |-> Truncate(raw, CategorySummaryMaxLen),
          key_points   |-> <<>>,
          newsletters  |-> <<>>,
          ai_generated |-> TRUE,
          parse_error  |-> TRUE]
    ELSE IF parsed.value.type # "object" THEN Raised("TypeError")
    ELSE [kind |-> "summary", value |-> parsed.value.val, ai_generated |-> TRUE,
          newsletter_count |-> Len(newsletters)]

\* summarize_category after the response has come
category_summary(response_text, raw, newsletters) ==
    category_result(json_loads(Strip(response_text)), raw, newsletters)

\* summarize_category, given what client.messages.create does
summarize_category(newsletters, response) ==
    IF ~CategoryNeedsModel(newsletters) THEN EmptyCategorySummary
    ELSE IF response.fails THEN Raised("APIError")
    ELSE category_summary(unwrap_code_block(response.text), response.text, newsletters)

-----------------------------------------------------------------------------
(* The language model behind client.messages.create: the responses a call  *)
(* can get.                                                                *)

\* a response with its text and its usage
Reply(text) ==
    [fails |-> FALSE, text |-> text, input_tokens |-> 1200 + Len(text),
     output_tokens |-> Len(text)]

\* the call raises (the API is down, the rate limit, a timeout)
ApiFailure == [fails |-> TRUE, text |-> <<>>, input_tokens |-> 0, output_tokens |-> 0]

\* texts that are JSON documents
JsonTexts ==
    {<<"{", "\"", "t", "i", "t", "l", "e", "\"", ":", "\"", "A", "\"", "}">>,
     <<"{", "}">>,
     <<"{", "\"", "k", "e", "y", "_", "p", "o", "i", "n", "t", "s", "\"", ":", "[", "\"", "x", "\"", "]", "}">>,
     <<" ", "{", "\"", "t", "i", "t", "l", "e", "\"", " ", ":", " ", "\"", "A", " ", "b", "\"", "}">> \o <<"\n">>,
     <<"{", "\"", "s", "u", "m", "m", "a", "r", "y", "\"", ":", "\"", "r", "u", "n", " ", Backtick, Backtick, Backtick, "s", "h", Backtick, Backtick, Backtick, " ", "n", "o", "w", "\"", "}">>,
     <<"{", "\"", "s", "u", "m", "m", "a", "r", "y", "\"", ":", "\"", "a", " ", Backtick, Backtick, Backtick, "j", "s", "o", "n", " ", "b", "l", "o", "c", "k", "\"", "}">>,
     <<"\"", "A", "\"">>,
     <<"[", "]">>}

\* the text in a code block with the json tag, in a code block without it,
\* and in a tagged code block between two lines of prose
WrapJson(text) == FenceJson \o <<"\n">> \o text \o <<"\n">> \o Fence
WrapPlain(text) == Fence \o <<"\n">> \o text \o <<"\n">> \o Fence
WrapProse(text) == <<"S", "u", "r", "e", ":">> \o <<"\n">> \o WrapJson(text) \o <<"\n">> \o <<"D", "o", "n", "e", ".">>

LongText(n) == [i \in 1..n |-> "a"]

\* texts that are no JSON documents
BadTexts ==
    {<<>>,
     <<"S", "o", "r", "r", "y", ",", " ", "I", " ", "c", "a", "n", "n", "o", "t", ".">>,
     <<"{", "\"", "t", "i", "t", "l", "e", "\"", ":">>,
     <<"H", "e", "r", "e", ":", " ", "{", "\"", "t", "i", "t", "l", "e", "\"", ":", "\"", "A", "\"", "}">>,
     WrapJson(<<"n", "o", "p", "e">>),
     Fence,
     LongText(SummaryMaxLen + 1),
     LongText(CategorySummaryMaxLen + 1)}

\* what the calls of one service get, one after the other
NewsletterPlans ==
    {<<Reply(t), Reply(WrapJson(t))>> : t \in JsonTexts}
    \cup {<<Reply(t), Reply(WrapPlain(t))>> : t \in JsonTexts}
    \cup {<<Reply(t), Reply(WrapProse(t))>> : t \in JsonTexts}
    \cup {<<Reply(t)>> : t \in BadTexts}
    \cup {<<ApiFailure, Reply(<<"{", "\"", "t", "i", "t", "l", "e", "\"", ":", "\"", "A", "\"", "}">>)>>}

CategoryPlans ==
    {<<Reply(t)>> : t \in BadTexts}
    \cup {<<Reply(<<"{", "\"", "s", "u", "m", "m", "a", "r", "y", "\"", ":", "\"", "S", "\"", "}">>), Reply(WrapJson(<<"{", "\"", "s", "u", "m", "m", "a", "r", "y", "\"", ":", "\"", "S", "\"", "}">>))>>,
          <<ApiFailure, Reply(<<"{", "}">>)>>}

\* the newsletters handed to summarize_category
CategoryInputs ==
    {<<>>,
     <<[sender_name |-> <<"L", "e", "n", "n", "y">>, subject |-> <<"U", "p", "d", "a", "t", "e">>, html_content |-> DocClean]>>,
     <<[sender_name |-> <<"L", "e", "n", "n", "y">>, subject |-> <<"U", "p", "d", "a", "t", "e">>, html_content |-> DocClean],
       [sender_name |-> <<"C", "h", "a", "r", "t", "r">>, subject |-> <<"C", "h", "a", "r", "t", "s">>, html_content |-> <<>>]>>}

\* a new SummarizationService and the calls it is going to be asked
NewCall(kind, subject, newsletters, plan) ==
    [pc |-> "ready", kind |-> kind, subject |-> subject, newsletters |-> newsletters,
     plan |-> plan, k |-> 1, raw |-> <<>>, response_text |-> <<>>, results |-> <<>>,
     session_stats |-> NewSessionStats, requests |-> 0]

\* the method returns (or raises): its outcome is kept and the next call
\* of the plan is due
Returned(c, result) ==
    [c EXCEPT !.results = Append(@, result),
              !.k = c.k + 1,
              !.pc = IF c.k + 1 > Len(c.plan) THEN "done" ELSE "ready",
              !.raw = <<>>, !.response_text = <<>>]

\* client.messages.create and _log_usage
SCallModel ==
    /\ call.pc = "ready"
    /\ call.kind = "category" => CategoryNeedsModel(call.newsletters)
    /\ LET response == call.plan[call.k]
           c == [call EXCEPT !.requests = @ + 1]
       IN  call' = IF response.fails
                   THEN Returned(c, Raised("APIError"))
                   ELSE [c EXCEPT !.session_stats = log_usage(@, response),
                                  !.raw = response.text,
                                  !.pc = "unwrap"]
    /\ UNCHANGED <<db, now, tz, run, nruns, resp, pmsg, pstage, pres, app, daily>>

\* summarize_category of no newsletters
SEmptyCategory ==
    /\ call.pc = "ready"
    /\ call.kind = "category"
    /\ ~CategoryNeedsModel(call.newsletters)
    /\ call' = Returned(call, EmptyCategorySummary)
    /\ UNCHANGED <<db, now, tz, run, nruns, resp, pmsg, pstage, pres, app, daily>>

\* the code block around the JSON is taken off
SUnwrap ==
    /\ call.pc = "unwrap"
    /\ call' = [call EXCEPT !.response_text = unwrap_code_block(call.raw),
                            !.pc = "loads"]
    /\ UNCHANGED <<db, now, tz, run, nruns, resp, pmsg, pstage, pres, app, daily>>

\* json.loads and the result, or the result of the except branch
SLoads ==
    /\ call.pc = "loads"
    /\ call' = Returned(call,
                  IF call.kind = "newsletter"
                  THEN newsletter_summary(call.response_text, call.raw, call.subject)
                  ELSE category_summary(call.response_text, call.raw, call.newsletters))
    /\ UNCHANGED <<db, now, tz, run, nruns, resp, pmsg, pstage, pres, app, daily>>

SummarizeInit ==
    /\ db = {}
    /\ now = ClockStart
    /\ tz = 0
    /\ run = [r \in {1} |-> IdleRun]
    /\ nruns = 0
    /\ resp = NoResp
    /\ pmsg = NoMsg
    /\ pstage = "off"
    /\ pres = NoRes
    /\ app = Serving
    /\ daily = NoDaily
    /\ call \in {NewCall("newsletter", <<"U", "p", "d", "a", "t", "e">>, <<>>, plan) : plan \in NewsletterPlans}
          \cup {NewCall("category", <<>>, newsletters, plan) :
                   newsletters \in CategoryInputs, plan \in CategoryPlans}

SummarizeNext == SCallModel \/ SEmptyCategory \/ SUnwrap \/ SLoads

\* the calls of a SummarizationService over the family of responses
SummarizeSpec == SummarizeInit /\ [][SummarizeNext]_vars

\* the steps above compute what the methods return
SummarizeStepsAgree ==
    \A k \in 1..Len(call.results) :
       call.results[k] =
          IF call.kind = "newsletter"
          THEN summarize_newsletter(call.plan[k], call.subject)
          ELSE summarize_category(call.newsletters, call.plan[k])

-----------------------------------------------------------------------------
(* Claims about the SummarizationService                                   *)

\* C15: a category rollup invoked with zero records returns the fixed
\* empty-category summary and makes no call to the language model: the
\* number of requests and the usage statistics stay as they were.
C15_EmptyCategoryWithoutModelCall ==
    (call.pc # "off" /\ call.kind = "category" /\ call.newsletters = <<>>) =>
        /\ \A k \in 1..Len(call.results) : call.results[k] = EmptyCategorySummary
        /\ call.requests = 0
        /\ call.session_stats = NewSessionStats
        /\ call.pc \in {"ready", "done"}

\* summarize_category of an empty list has returned
C15_Witness ==
    /\ call.pc = "done"
    /\ call.kind = "category"
    /\ call.newsletters = <<>>
    /\ Len(call.results) = 2
    /\ call.results[1].kind = "empty"
    /\ call.requests = 0

\* the first response of the plan is a JSON object and the second one is
\* the same text in a code block, with or without the json tag
WrappedPair(plan) ==
    /\ Len(plan) = 2
    /\ ~plan[1].fails
    /\ ~plan[2].fails
    /\ json_loads(Strip(plan[1].text)).ok
    /\ json_loads(Strip(plan[1].text)).value.type = "object"
    /\ plan[2].text \in {WrapJson(plan[1].text), WrapPlain(plan[1].text)}

\* C16: for every response text T that parses as structured JSON, the
\* summary of T wrapped in a code block (with or without the json tag) is
\* the summary of T unwrapped.
C16_WrappedSameAsUnwrapped ==
    (call.pc = "done" /\ call.kind = "newsletter" /\ WrappedPair(call.plan)) =>
        call.results[2] = call.results[1]

\* C16 for the texts that hold no code fence themselves
WrappedSameWithoutFenceInside ==
    (/\ call.pc = "done"
     /\ call.kind = "newsletter"
     /\ WrappedPair(call.plan)
     /\ Find(call.plan[1].text, Fence, 1) = 0) =>
        /\ call.results[2] = call.results[1]
        /\ call.results[1].kind = "summary"

\* a JSON object with a code fence in one of its strings is not parsed,
\* wrapped or not, and the two fallback results differ
FenceInsideBreaksParsing ==
    (/\ call.pc = "done"
     /\ call.kind = "newsletter"
     /\ WrappedPair(call.plan)
     /\ Find(call.plan[1].text, Fence, 1) # 0) =>
        /\ call.results[1].kind = "fallback"
        /\ call.results[2].kind = "fallback"
        /\ call.results[2] # call.results[1]

\* the response of call k came and json.loads does not accept its text
ParseFails(k) ==
    /\ ~call.plan[k].fails
    /\ ~json_loads(Strip(unwrap_code_block(call.plan[k].text))).ok

-----------------------------------------------------------------------------
(* main.py: get_daily_ai_summary, GET /api/ai-summary.  The rows of the    *)
(* day are given; the clock of the run counts seconds.                     *)

MaxDailyRows == 3

\* time.sleep(5) between the newsletters of a category and time.sleep(60)
\* between the categories
RecordDelay == 5
CategoryDelay == 60

\* the seconds a request to the model takes
CallSeconds == 2

\* the categories of the rows, in the order of ORDER BY category
DailyCategories == <<"finance", "product_ai">>

\* a row of the day
DailyRow(id, category, has_html) ==
    [id |-> id, category |-> category,
     sender_name |-> IF category = "finance" THEN <<"C", "h", "a", "r", "t", "r">> ELSE <<"L", "e", "n", "n", "y">>,
     subject |-> <<"U", "p", "d", "a", "t", "e">>,
     raw_html |-> IF has_html THEN DocClean ELSE <<>>]

\* what the query returns: the rows of the day ordered by category
DailyRows ==
    LET Position(c) == CHOOSE k \in 1..Len(DailyCategories) : DailyCategories[k] = c
        Choices(n) == [1..n -> {"finance", "product_ai"} \X BOOLEAN]
        Ordered(n) == {g \in Choices(n) :
                          \A k \in 1..(n - 1) : Position(g[k][1]) <= Position(g[k + 1][1])}
    IN  UNION {{[k \in 1..n |-> DailyRow(k, f[k][1], f[k][2])] : f \in Ordered(n)} :
                  n \in 0..MaxDailyRows}

\* what the model can answer to a request of the run
DailyResponses ==
    {Reply(<<"{", "\"", "t", "i", "t", "l", "e", "\"", ":", "\"", "A", "\"", "}">>), Reply(<<"{", "\"", "s", "u", "m", "m", "a", "r", "y", "\"", ":", "\"", "S", "\"", "}">>), Reply(<<"S", "o", "r", "r", "y">>), ApiFailure}

\* nl.category or 'uncategorized'
GroupKey(nl) == IF nl.category = "" THEN "uncategorized" ELSE nl.category

\* newsletters_by_category: the categories in the order of their first row,
\* each with its rows in the order of the query
GroupByCategory(rows) ==
    LET keys == [k \in 1..Len(rows) |-> GroupKey(rows[k])]
        firsts == SelectSeq([k \in 1..Len(rows) |-> k],
                            LAMBDA k : \A m \in 1..(k - 1) : keys[m] # keys[k])
    IN  [g \in 1..Len(firsts) |->
            [cat |-> keys[firsts[g]],
             cat_newsletters |-> SelectSeq(rows, LAMBDA nl : GroupKey(nl) = keys[firsts[g]])]]

\* category_display_names.get(cat, cat.replace('_', ' ').title())
DisplayName(cat) ==
    CASE cat = "product_ai" -> <<"P", "r", "o", "d", "u", "c", "t", " ", "&", " ", "A", "I">>
      [] cat = "health_fitness" -> <<"H", "e", "a", "l", "t", "h", " ", "&", " ", "F", "i", "t", "n", "e", "s", "s">>
      [] cat = "finance" -> <<"F", "i", "n", "a", "n", "c", "e">>
      [] cat = "sahil_bloom" -> <<"S", "a", "h", "i", "l", " ", "B", "l", "o", "o", "m">>
      [] cat = "uncategorized" -> <<"U", "n", "c", "a", "t", "e", "g", "o", "r", "i", "z", "e", "d">>

\* str(e)
ErrorMessage(e) ==
    CASE e.error = "APIError" -> <<"C", "o", "n", "n", "e", "c", "t", "i", "o", "n", " ", "e", "r", "r", "o", "r", ".">>
      [] e.error = "TypeError" -> <<"o", "b", "j", "e", "c", "t", " ", "d", "o", "e", "s", " ", "n", "o", "t", " ", "s", "u", "p", "p", "o", "r", "t", " ", "i", "t", "e", "m", " ", "a", "s", "s", "i", "g", "n", "m", "e", "n", "t">>
      [] e.error = "AttributeError" -> <<"o", "b", "j", "e", "c", "t", " ", "h", "a", "s", " ", "n", "o", " ", "a", "t", "t", "r", "i", "b", "u", "t", "e", " ", "'", "c", "r", "e", "a", "t", "e", "_", "c", "a", "t", "e", "g", "o", "r", "y", "_", "r", "o", "l", "l", "u", "p", "'">>

\* the run before its first step; rollup_failed remembers the categories
\* whose `except Exception` branch ran
NewDaily(rows, api_key) ==
    [pc |-> "query", rows |-> rows, api_key |-> api_key, groups |-> <<>>,
     idx |-> 0, j |-> 0, individual_summaries |-> <<>>, categories |-> <<>>,
     t |-> 0, calls |-> <<>>, requests |-> 0, session_stats |-> NewSessionStats,
     rollup_failed |-> {}, result |-> [kind |-> "none"]]

\* the newsletters of the category the run is at, and the one it is at
CatNewsletters == daily.groups[daily.idx].cat_newsletters
CurrentNl == CatNewsletters[daily.j]

\* a request to the model: its place in the run, when it started and ended
CallEntry(kind, response) ==
    [kind |-> kind, idx |-> daily.idx, id |-> IF kind = "record" THEN CurrentNl.id ELSE 0,
     start |-> daily.t, end |-> daily.t + CallSeconds, ok |-> ~response.fails]

\* the run after a request: the log, the clock, the counters of the service
AfterCall(d, kind, response) ==
    [d EXCEPT !.calls = Append(@, CallEntry(kind, response)),
              !.t = @ + CallSeconds,
              !.requests = @ + 1,
              !.session_stats = IF response.fails THEN @ ELSE log_usage(@, response)]

\* `if not newsletters`: nothing to summarize on this date
DNoNewsletters ==
    /\ daily.pc = "query"
    /\ daily.rows = <<>>
    /\ daily' = [daily EXCEPT !.pc = "done",
                   !.result = [kind |-> "empty", total_newsletters |-> 0,
                               categories |-> <<>>,
                               message |-> <<"N", "o", " ", "n", "e", "w", "s", "l", "e", "t", "t", "e", "r", "s", " ", "f", "o", "u", "n", "d", " ", "f", "o", "r", " ", "t", "h", "i", "s", " ", "d", "a", "t", "e">>]]
    /\ UNCHANGED <<db, now, tz, run, nruns, resp, pmsg, pstage, pres, app, call>>

\* a handler that goes on without the service
DNoServiceGoesOn ==
    /\ daily.pc = "query"
    /\ daily.rows # <<>>
    /\ ~daily.api_key
    /\ daily' = [daily EXCEPT !.pc = "records",
                              !.groups = GroupByCategory(daily.rows),
                              !.idx = 1, !.j = 1, !.individual_summaries = <<>>]
    /\ UNCHANGED <<db, now, tz, run, nruns, resp, pmsg, pstage, pres, app, call>>

\* get_summarization_service without ANTHROPIC_API_KEY: ValueError, which
\* becomes HTTPException 503
DNoService ==
    /\ daily.pc = "query"
    /\ daily.rows # <<>>
    /\ ~daily.api_key
    /\ daily' = [daily EXCEPT !.pc = "raised",
                   !.result = [kind |-> "raise", error |-> "HTTPException",
                               status_code |-> 503]]
    /\ UNCHANGED <<db, now, tz, run, nruns, resp, pmsg, pstage, pres, app, call>>

\* the service is there: the rows are grouped and the first category begins
DGroup ==
    /\ daily.pc = "query"
    /\ daily.rows # <<>>
    /\ daily.api_key
    /\ daily' = [daily EXCEPT !.pc = "records",
                              !.groups = GroupByCategory(daily.rows),
                              !.idx = 1, !.j = 1, !.individual_summaries = <<>>]
    /\ UNCHANGED <<db, now, tz, run, nruns, resp, pmsg, pstage, pres, app, call>>

\* `if not nl.raw_html: continue`
DSkipRecord ==
    /\ daily.pc = "records"
    /\ daily.j <= Len(CatNewsletters)
    /\ CurrentNl.raw_html = <<>>
    /\ daily' = [daily EXCEPT !.j = @ + 1]
    /\ UNCHANGED <<db, now, tz, run, nruns, resp, pmsg, pstage, pres, app, call>>

\* the value of a member of a parsed JSON object, or the default
MemberOr(members, key, default) ==
    IF \E m \in 1..Len(members) : members[m].key = key
    THEN members[CHOOSE m \in 1..Len(members) : members[m].key = key].value.val
    ELSE default

\* create_category_rollup after json.loads
rollup_result(parsed, raw, individual_summaries) ==
    IF ~parsed.ok
    THEN [kind |-> "fallback",
          summary |-> Truncate(raw, CategorySummaryMaxLen),
          key_points |-> <<>>, ai_generated |-> TRUE, parse_error |-> TRUE]
    ELSE IF parsed.value.type # "object" THEN Raised("TypeError")
    ELSE [kind |-> "rollup",
          summary |-> MemberOr(parsed.value.val, <<"s", "u", "m", "m", "a", "r", "y">>, <<>>),
          key_points |-> MemberOr(parsed.value.val, <<"k", "e", "y", "_", "p", "o", "i", "n", "t", "s">>, <<>>),
          newsletters |-> [k \in 1..Len(individual_summaries) |->
                              [id |-> individual_summaries[k].id,
                               one_liner |-> individual_summaries[k].sender_name]],
          ai_generated |-> TRUE]

\* SummarizationService.create_category_rollup: the summary of a category
\* from the summaries of its newsletters and its display name, with one
\* line per newsletter
create_category_rollup(individual_summaries, display_name, response) ==
    IF response.fails THEN Raised("APIError")
    ELSE rollup_result(json_loads(Strip(unwrap_code_block(response.text))),
                       response.text, individual_summaries)

\* `except Exception as e` around summarize_newsletter: the placeholder
summarize_failed(nl, e) ==
    [kind |-> "placeholder", id |-> nl.id, sender_name |-> nl.sender_name,
     title |-> nl.subject, summary |-> <<"F", "a", "i", "l", "e", "d", " ", "t", "o", " ", "g", "e", "n", "e", "r", "a", "t", "e", " ", "s", "u", "m", "m", "a", "r", "y">>,
     error |-> ErrorMessage(e)]

\* the category summary of a category without individual summaries
NoContentSummary ==
    [kind |-> "no_content", summary |-> <<"N", "o", " ", "c", "o", "n", "t", "e", "n", "t", " ", "a", "v", "a", "i", "l", "a", "b", "l", "e", " ", "f", "o", "r", " ", "s", "u", "m", "m", "a", "r", "i", "z", "a", "t", "i", "o", "n", ".">>,
     key_points |-> <<>>, ai_generated |-> FALSE]

\* `except Exception as e` around the category: the placeholder
category_failed(e) ==
    [kind |-> "failed", summary |-> <<"F", "a", "i", "l", "e", "d", " ", "t", "o", " ", "g", "e", "n", "e", "r", "a", "t", "e", " ", "A", "I", " ", "s", "u", "m", "m", "a", "r", "y", ":", " ">> \o ErrorMessage(e),
     key_points |-> <<>>, error |-> TRUE]

\* categories[cat] = {...}
CategoryEntry(d, rollup, individual_summaries) ==
    [cat |-> d.groups[d.idx].cat,
     display_name |-> DisplayName(d.groups[d.idx].cat),
     newsletter_count |-> Len(d.groups[d.idx].cat_newsletters),
     summary |-> rollup.summary,
     key_points |-> rollup.key_points,
     newsletters |-> individual_summaries,
     ai_generated |-> IF "ai_generated" \in DOMAIN rollup
                      THEN rollup.ai_generated ELSE TRUE]

\* a loop without time.sleep(60) between the categories
StoreCategoryWithoutDelay(d, rollup, individual_summaries) ==
    LET categories == Append(d.categories,
                             CategoryEntry(d, rollup, individual_summaries))
    IN  IF d.idx = Len(d.groups)
        THEN [d EXCEPT !.categories = categories, !.individual_summaries = <<>>,
                       !.pc = "done",
                       !.result = [kind |-> "summary",
                                   total_newsletters |-> Len(d.rows),
                                   categories |-> categories,
                                   ai_generated |-> TRUE]]
        ELSE [d EXCEPT !.categories = categories, !.individual_summaries = <<>>,
                       !.idx = @ + 1, !.j = 1]

\* the category is put into categories; the run goes on with the next one
\* after time.sleep(60), or returns after the last one
StoreCategory(d, rollup, individual_summaries) ==
    LET categories == Append(d.categories,
                             CategoryEntry(d, rollup, individual_summaries))
    IN  IF d.idx = Len(d.groups)
        THEN [d EXCEPT !.categories = categories, !.individual_summaries = <<>>,
                       !.pc = "done",
                       !.result = [kind |-> "summary",
                                   total_newsletters |-> Len(d.rows),
                                   categories |-> categories,
                                   ai_generated |-> TRUE]]
        ELSE [d EXCEPT !.categories = categories, !.individual_summaries = <<>>,
                       !.idx = @ + 1, !.j = 1, !.t = @ + CategoryDelay]

\* the newsletter of the run is one to summarize
AtRecord ==
    /\ daily.pc = "records"
    /\ daily.j <= Len(CatNewsletters)
    /\ CurrentNl.raw_html # <<>>

\* summarize_newsletter returns: the summary is kept and the run sleeps
\* when the category has more newsletters than summaries
DRecordSummarized ==
    /\ AtRecord
    /\ \E response \in DailyResponses :
          LET nl_summary == summarize_newsletter(response, CurrentNl.subject)
              d == AfterCall(daily, "record", response)
          IN  /\ nl_summary.kind # "raise"
              /\ LET appended ==
                        Append(daily.individual_summaries,
                               [kind |-> "summarized", id |-> CurrentNl.id,
                                sender_name |-> CurrentNl.sender_name,
                                nl_summary |-> nl_summary])
                 IN  daily' = [d EXCEPT !.individual_summaries = appended,
                                        !.j = @ + 1,
                                        !.t = @ + IF Len(appended) < Len(CatNewsletters)
                                                  THEN RecordDelay ELSE 0]
    /\ UNCHANGED <<db, now, tz, run, nruns, resp, pmsg, pstage, pres, app, call>>

\* a handler without the inner try: the failure of one newsletter is the
\* failure of its category
DRecordFailedFailsCategory ==
    /\ AtRecord
    /\ \E response \in DailyResponses :
          LET e == summarize_newsletter(response, CurrentNl.subject)
              d == AfterCall(daily, "record", response)
          IN  /\ e.kind = "raise"
              /\ daily' = StoreCategory(d, category_failed(e), <<>>)
    /\ UNCHANGED <<db, now, tz, run, nruns, resp, pmsg, pstage, pres, app, call>>

\* summarize_newsletter raises: the placeholder is kept and the run goes on
\* with the next newsletter at once
DRecordFailed ==
    /\ AtRecord
    /\ \E response \in DailyResponses :
          LET e == summarize_newsletter(response, CurrentNl.subject)
              d == AfterCall(daily, "record", response)
          IN  /\ e.kind = "raise"
              /\ daily' = [d EXCEPT !.individual_summaries =
                                        Append(@, summarize_failed(CurrentNl, e)),
                                    !.j = @ + 1]
    /\ UNCHANGED <<db, now, tz, run, nruns, resp, pmsg, pstage, pres, app, call>>

\* the newsletters of the category are through
AtRollup ==
    /\ daily.pc = "records"
    /\ daily.j > Len(CatNewsletters)

\* no individual summaries: the fixed category summary, without a request
DCategoryWithoutContent ==
    /\ AtRollup
    /\ daily.individual_summaries = <<>>
    /\ daily' = StoreCategory(daily, NoContentSummary, <<>>)
    /\ UNCHANGED <<db, now, tz, run, nruns, resp, pmsg, pstage, pres, app, call>>

\* create_category_rollup returns
DCategoryRolledUp ==
    /\ AtRollup
    /\ daily.individual_summaries # <<>>
    /\ \E response \in DailyResponses :
          LET rollup ==
                 create_category_rollup(daily.individual_summaries,
                                        DisplayName(daily.groups[daily.idx].cat), response)
              d == AfterCall(daily, "rollup", response)
          IN  /\ rollup.kind # "raise"
              /\ daily' = StoreCategory(d, rollup, daily.individual_summaries)
    /\ UNCHANGED <<db, now, tz, run, nruns, resp, pmsg, pstage, pres, app, call>>

\* a handler without the outer try: the failure of a rollup leaves the run
DRollupFailedAborts ==
    /\ AtRollup
    /\ daily.individual_summaries # <<>>
    /\ daily' = [daily EXCEPT !.pc = "raised",
                              !.result = [kind |-> "raise", error |-> "Exception",
                                          status_code |-> 500]]
    /\ UNCHANGED <<db, now, tz, run, nruns, resp, pmsg, pstage, pres, app, call>>

\* create_category_rollup raises, after its request or, with the service of
\* summarization_service.py, which has no such method, before any request:
\* the placeholder summary, and no newsletters for the category
DRollupFailed ==
    /\ AtRollup
    /\ daily.individual_summaries # <<>>
    /\ \/ \E response \in DailyResponses :
             LET e == create_category_rollup(daily.individual_summaries,
                                             DisplayName(daily.groups[daily.idx].cat),
                                             response)
                 d == AfterCall(daily, "rollup", response)
             IN  /\ e.kind = "raise"
                 /\ daily' = StoreCategory([d EXCEPT !.rollup_failed = @ \cup {d.idx}],
                                           category_failed(e), <<>>)
       \/ daily' = StoreCategory([daily EXCEPT !.rollup_failed = @ \cup {daily.idx}],
                                 category_failed(Raised("AttributeError")), <<>>)
    /\ UNCHANGED <<db, now, tz, run, nruns, resp, pmsg, pstage, pres, app, call>>

DailyInit ==
    /\ db = {}
    /\ now = ClockStart
    /\ tz = 0
    /\ run = [r \in {1} |-> IdleRun]
    /\ nruns = 0
    /\ resp = NoResp
    /\ pmsg = NoMsg
    /\ pstage = "off"
    /\ pres = NoRes
    /\ app = Serving
    /\ call = NoCall
    /\ daily \in {NewDaily(rows, api_key) : rows \in DailyRows, api_key \in BOOLEAN}

DailyNext ==
    \/ DNoNewsletters
    \/ DNoService
    \/ DGroup
    \/ DSkipRecord
    \/ DRecordSummarized
    \/ DRecordFailed
    \/ DCategoryWithoutContent
    \/ DCategoryRolledUp
    \/ DRollupFailed

\* one GET /api/ai-summary over the rows of a day
DailySpec == DailyInit /\ [][DailyNext]_vars

-----------------------------------------------------------------------------
(* Claims about the daily AI summary run                                   *)

\* the requests of the run for the newsletters of category g
RecordCalls(g) ==
    SelectSeq(daily.calls, LAMBDA c : c.kind = "record" /\ c.idx = g)

\* the newsletters of category g that the run is through with
RecordsDone(g) ==
    IF daily.pc = "records" /\ g = daily.idx THEN daily.j - 1
    ELSE IF daily.pc \in {"records", "done"} /\ g <= Len(daily.categories)
    THEN Len(daily.groups[g].cat_newsletters)
    ELSE 0

\* where the individual summaries of category g are: with the run while it
\* is at g, in categories afterwards
SummariesOf(g) ==
    IF daily.pc = "records" /\ g = daily.idx THEN daily.individual_summaries
    ELSE daily.categories[g].newsletters

\* the request for newsletter id failed and its placeholder is in summaries
HasPlaceholder(summaries, nl) ==
    \E k \in 1..Len(summaries) :
       /\ summaries[k].kind = "placeholder"
       /\ summaries[k].id = nl.id
       /\ summaries[k].title = nl.subject
       /\ summaries[k].summary = <<"F", "a", "i", "l", "e", "d", " ", "t", "o", " ", "g", "e", "n", "e", "r", "a", "t", "e", " ", "s", "u", "m", "m", "a", "r", "y">>
       /\ summaries[k].error # <<>>

\* C18: in a summarization run the failure of the model call for one
\* record is replaced by a placeholder with an error marker for that
\* record, every remaining record of the category and every remaining
\* category is still processed, and the run returns a result and does not
\* raise.
C18_RecordFailureIsPlaceholder ==
    (daily.pc \in {"records", "done", "raised"} /\ daily.api_key) =>
        /\ daily.pc # "raised"
        /\ \A g \in 1..Len(daily.groups) :
              \A n \in 1..RecordsDone(g) :
                 LET nl == daily.groups[g].cat_newsletters[n]
                     asked == \E k \in 1..Len(daily.calls) :
                                 /\ daily.calls[k].kind = "record"
                                 /\ daily.calls[k].id = nl.id
                     failed == \E k \in 1..Len(daily.calls) :
                                 /\ daily.calls[k].kind = "record"
                                 /\ daily.calls[k].id = nl.id
                                 /\ ~daily.calls[k].ok
                 IN  /\ nl.raw_html # <<>> => asked
                     /\ (failed /\ g \notin daily.rollup_failed)
                           => HasPlaceholder(SummariesOf(g), nl)
        /\ daily.pc = "done" =>
              /\ daily.result.kind = IF daily.rows = <<>> THEN "empty" ELSE "summary"
              /\ Len(daily.result.categories) = Len(daily.groups)
              /\ \A g \in 1..Len(daily.groups) :
                    daily.result.categories[g].cat = daily.groups[g].cat

\* the run has returned; the request for the first newsletter failed, the
\* second newsletter of the category and the second category were asked
\* for, and the placeholder is in the result
C18_Witness ==
    /\ daily.pc = "done"
    /\ daily.result.kind = "summary"
    /\ Len(daily.groups) = 2
    /\ Len(RecordCalls(1)) = 2
    /\ ~RecordCalls(1)[1].ok
    /\ RecordCalls(1)[2].ok
    /\ Len(RecordCalls(2)) = 1
    /\ 1 \notin daily.rollup_failed
    /\ HasPlaceholder(daily.result.categories[1].newsletters,
                      daily.groups[1].cat_newsletters[1])
    /\ Len(daily.result.categories[1].newsletters) = 2

\* C19: a failure in the rollup step of a category yields a placeholder
\* category summary for that category and does not abort the run: the
\* later categories are still processed and the run returns its result.
C19_RollupFailureIsPlaceholder ==
    (daily.pc \in {"records", "done", "raised"} /\ daily.api_key) =>
        /\ daily.pc # "raised"
        /\ \A g \in daily.rollup_failed :
              /\ g <= Len(daily.categories)
              /\ StartsWith(daily.categories[g].summary, <<"F", "a", "i", "l", "e", "d", " ", "t", "o", " ", "g", "e", "n", "e", "r", "a", "t", "e", " ", "A", "I", " ", "s", "u", "m", "m", "a", "r", "y", ":", " ">>)
              /\ daily.categories[g].key_points = <<>>
              /\ daily.categories[g].cat = daily.groups[g].cat
              /\ g < Len(daily.groups) =>
                    \/ daily.pc = "records" /\ daily.idx > g
                    \/ daily.pc = "done"
        /\ daily.pc = "done" =>
              /\ daily.result.kind = IF daily.rows = <<>> THEN "empty" ELSE "summary"
              /\ Len(daily.result.categories) = Len(daily.groups)

\* the run has returned; the rollup of the first category failed and the
\* second category has its newsletter summarized and its rollup
C19_Witness ==
    /\ daily.pc = "done"
    /\ daily.result.kind = "summary"
    /\ Len(daily.groups) = 2
    /\ daily.rollup_failed = {1}
    /\ StartsWith(daily.result.categories[1].summary, <<"F", "a", "i", "l", "e", "d", " ", "t", "o", " ", "g", "e", "n", "e", "r", "a", "t", "e", " ", "A", "I", " ", "s", "u", "m", "m", "a", "r", "y", ":", " ">>)
    /\ Len(RecordCalls(2)) = 1
    /\ daily.result.categories[2].summary = <<"S">>
    /\ Len(daily.result.categories[2].newsletters) = 1

\* C20: for every pair of successive per-record model calls within the
\* same category, RecordDelay seconds elapse between the end of the first
\* call and the start of the second, whether the first call succeeded or
\* failed.
C20_DelayBetweenRecordCalls ==
    daily.pc \in {"records", "done"} =>
        \A g \in 1..Len(daily.groups) :
           \A k \in 1..(Len(RecordCalls(g)) - 1) :
              RecordCalls(g)[k + 1].start >= RecordCalls(g)[k].end + RecordDelay

\* C20 for the calls that returned
DelayAfterReturnedCall ==
    daily.pc \in {"records", "done"} =>
        \A g \in 1..Len(daily.groups) :
           \A k \in 1..(Len(RecordCalls(g)) - 1) :
              RecordCalls(g)[k].ok =>
                 RecordCalls(g)[k + 1].start >= RecordCalls(g)[k].end + RecordDelay

\* after a call that raised the next call of the category starts at once
NoDelayAfterFailedCall ==
    daily.pc \in {"records", "done"} =>
        \A g \in 1..Len(daily.groups) :
           \A k \in 1..(Len(RecordCalls(g)) - 1) :
              ~RecordCalls(g)[k].ok =>
                 RecordCalls(g)[k + 1].start = RecordCalls(g)[k].end

\* C21: CategoryDelay seconds elapse before the first model call of every
\* category other than the first, and no such delay precedes the first
\* category.
C21_DelayBetweenCategories ==
    daily.pc \in {"records", "done"} =>
        \A k \in 1..Len(daily.calls) :
           /\ daily.calls[k].start >= (daily.calls[k].idx - 1) * CategoryDelay
           /\ \A m \in 1..Len(daily.calls) :
                 daily.calls[m].idx < daily.calls[k].idx =>
                    daily.calls[k].start >= daily.calls[m].end + CategoryDelay
           /\ (k = 1 /\ daily.calls[k].idx = 1) => daily.calls[k].start = 0

\* the run has returned; its first call, for the first category, started
\* at once, and the first call for the second category started
\* CategoryDelay seconds after the rollup of the first
C21_Witness ==
    /\ daily.pc = "done"
    /\ Len(daily.groups) = 2
    /\ Len(daily.calls) = 4
    /\ daily.calls[1].idx = 1
    /\ daily.calls[1].start = 0
    /\ daily.calls[2].idx = 1
    /\ daily.calls[2].kind = "rollup"
    /\ daily.calls[3].idx = 2
    /\ daily.calls[3].kind = "record"
    /\ daily.calls[3].start = daily.calls[2].end + CategoryDelay

\* C23: if the credential of the language model is missing when the
\* summarization service is constructed, the construction fails, the
\* failure is the one failure of the run (503), no request is made to the
\* model and no part of a summary result is produced.
C23_MissingCredentialFailsAtOnce ==
    (daily.pc \notin {"off", "query"} /\ daily.rows # <<>> /\ ~daily.api_key) =>
        /\ daily.pc = "raised"
        /\ daily.result = [kind |-> "raise", error |-> "HTTPException",
                           status_code |-> 503]
        /\ daily.requests = 0
        /\ daily.calls = <<>>
        /\ daily.session_stats = NewSessionStats
        /\ daily.groups = <<>>
        /\ daily.categories = <<>>

\* a run over a day with newsletters that have HTML has failed for the
\* missing credential
C23_Witness ==
    /\ daily.pc = "raised"
    /\ ~daily.api_key
    /\ Len(daily.rows) = 2
    /\ \A k \in 1..Len(daily.rows) : daily.rows[k].raw_html # <<>>
    /\ daily.result.kind = "raise"
    /\ daily.requests = 0

-----------------------------------------------------------------------------
(* Claims about the usage statistics of a SummarizationService             *)

\* the calls of the service that got a response, in the order of the plan
ResponsesReturned ==
    IF call.pc = "off" \/ (call.kind = "category" /\ call.newsletters = <<>>)
    THEN <<>>
    ELSE SelectSeq(SubSeq(call.plan, 1,
                          IF call.pc \in {"unwrap", "loads"} THEN call.k ELSE call.k - 1),
                   LAMBDA response : ~response.fails)

RECURSIVE TokenSum(_, _)
TokenSum(responses, field) ==
    IF responses = <<>> THEN 0
    ELSE Head(responses)[field] + TokenSum(Tail(responses), field)

\* session_stats counts the responses and sums up their tokens
UsageIsSumOfResponses ==
    call.pc # "off" =>
        /\ call.session_stats.api_calls = Len(ResponsesReturned)
        /\ call.session_stats.total_input_tokens
              = TokenSum(ResponsesReturned, "input_tokens")
        /\ call.session_stats.total_output_tokens
              = TokenSum(ResponsesReturned, "output_tokens")

\* no step makes a counter smaller
UsageNeverDecreases ==
    (call.pc # "off" /\ call'.pc # "off") =>
        /\ call'.session_stats.api_calls >= call.session_stats.api_calls
        /\ call'.session_stats.total_input_tokens >= call.session_stats.total_input_tokens
        /\ call'.session_stats.total_output_tokens >= call.session_stats.total_output_tokens

\* C24: after any sequence of model calls through one service, api_calls is
\* the number of calls that returned a response, total_input_tokens and
\* total_output_tokens are the sums of the tokens those responses reported,
\* and the counters never decrease.
C24_UsageAccounting == []UsageIsSumOfResponses /\ [][UsageNeverDecreases]_vars

\* two calls of one service have returned responses and both are counted
C24_Witness ==
    /\ call.pc = "done"
    /\ call.kind = "newsletter"
    /\ Len(ResponsesReturned) = 2
    /\ call.requests = 2
    /\ call.session_stats.api_calls = 2
    /\ call.session_stats.total_output_tokens
          = call.plan[1].output_tokens + call.plan[2].output_tokens
    /\ call.plan[1].output_tokens # call.plan[2].output_tokens

\* a call that raised is a request and is not counted
FailedCallNotCounted ==
    /\ call.pc = "done"
    /\ call.plan[1].fails
    /\ call.requests = 2
    /\ call.session_stats.api_calls = 1

-----------------------------------------------------------------------------
(* Claims about the ingestion runs                                         *)

\* C25: an ingestion run never changes or deletes a record that existed
\* before: every step of a run leaves every row of the table in the table,
\* with all its fields, whatever the listing holds and whichever messages
\* fail.
C25_RunKeepsExistingRows ==
    [][run' # run => db \subseteq db']_vars

\* a run over a table with rows has returned: one of its messages had a
\* row, another one failed, and the rows are there
C25_Witness ==
    /\ run[1].pc = "done"
    /\ db # {}
    /\ run[1].stats.total_fetched = 2
    /\ run[1].stats.already_exists = 1
    /\ run[1].stats.parse_errors = 1

-----------------------------------------------------------------------------
(* The scoped id of a message, over pairs of owners and source ids         *)

\* owner_email arguments: None, spellings of one address, and an address
\* that ends with a colon
OwnerInputs == {<<>>, <<"a", "@", "x">>, <<" ", "A", "@", "x", " ">>, <<"a", "@", "x", ":">>, <<"b", "@", "x">>}

\* ids of the source: ids as Gmail gives them, and one with a colon
IdInputs == {<<"1">>, <<"1", "8", "c", "2", "f">>, <<":", "1">>, <<"2">>}

\* the lookup of message b of owner_b in a table that holds message a of
\* owner_a
ScopeTwo ==
    /\ resp.op = "none"
    /\ \E owner_a \in OwnerInputs, owner_b \in OwnerInputs,
          id_a \in IdInputs, id_b \in IdInputs :
          LET a == normalize_owner_email(owner_a)
              b == normalize_owner_email(owner_b)
              table == {[message_id |-> ScopedId(a, id_a), owner_email |-> a]}
          IN  resp' = [op |-> "scoped_id", caller |-> owner_b,
                       owners |-> <<a, b>>, ids |-> <<id_a, id_b>>,
                       scoped |-> <<ScopedId(a, id_a), ScopedId(b, id_b)>>,
                       existing |-> Existing(table, ScopedId(b, id_b)) # {}]
    /\ UNCHANGED <<db, now, tz, run, nruns, pmsg, pstage, pres, app, daily, call>>

ScopedIdInit ==
    /\ db = {}
    /\ now = ClockStart
    /\ tz = 0
    /\ run = [r \in {1} |-> IdleRun]
    /\ nruns = 0
    /\ resp = NoResp
    /\ pmsg = NoMsg
    /\ pstage = "off"
    /\ pres = NoRes
    /\ app = Serving
    /\ daily = NoDaily
    /\ call = NoCall

ScopedIdNext == ScopeTwo

ScopedIdSpec == ScopedIdInit /\ [][ScopedIdNext]_vars

InjectiveForIdsWithoutColon ==
    (/\ resp.op = "scoped_id"
     /\ ~Contains(resp.ids[1], <<":">>)
     /\ ~Contains(resp.ids[2], <<":">>)) =>
        /\ (resp.owners[1] # resp.owners[2] \/ resp.ids[1] # resp.ids[2])
              => resp.scoped[1] # resp.scoped[2]
        /\ resp.existing => (resp.owners[1] = resp.owners[2] /\ resp.ids[1] = resp.ids[2])

\* two pairs that differ in owner and in source id have one scoped id
ScopedIdCollision ==
    /\ resp.op = "scoped_id"
    /\ resp.owners = <<<<"a", "@", "x", ":">>, <<"a", "@", "x">>>>
    /\ resp.ids = <<<<"1">>, <<":", "1">>>>
    /\ resp.scoped[1] = resp.scoped[2]
    /\ resp.existing

-----------------------------------------------------------------------------
(* Claims about the extraction strategies                                  *)

\* the strategy of the platform found nothing to extract
NothingExtracted ==
    /\ pstage \in {"content", "done"}
    /\ "parsed_content" \in DOMAIN pres
    /\ pres.parsed_content.content = <<>>

\* C27: for every extraction strategy (substack, beehiiv, tldr, convertkit,
\* generic), an HTML input from which no content can be extracted yields a
\* result with empty content and needs_review = true, without raising.
C27_NothingExtractedNeedsReview ==
    NothingExtracted =>
        /\ pres.parsed_content.needs_review = TRUE
        /\ pres.parsed_content.title = <<>>
        /\ pres.parsed_content.sections = <<>>

\* the generic strategy flags what it returns
GenericFlagsNothingExtracted ==
    (NothingExtracted /\ pres.platform = "generic") =>
        pres.parsed_content.needs_review = TRUE

\* the substack, tldr and convertkit strategies return needs_review = false
\* whatever they found
FixedStrategiesDoNotFlag ==
    (NothingExtracted /\ pres.platform \in {"substack", "tldr", "convertkit"}) =>
        pres.parsed_content.needs_review = FALSE

\* the substack strategy has returned empty content without the flag
SubstackNothingExtracted ==
    /\ NothingExtracted
    /\ pres.platform = "substack"
    /\ pres.parsed_content.needs_review = FALSE

-----------------------------------------------------------------------------
(* Claims about the statistics of a run                                    *)

RECURSIVE CategoryTotal(_)
CategoryTotal(by_category) ==
    IF DOMAIN by_category = {} THEN 0
    ELSE LET c == CHOOSE c \in DOMAIN by_category : TRUE IN
         by_category[c]
           + CategoryTotal([d \in DOMAIN by_category \ {c} |-> by_category[d]])

\* the messages the run is through with have been counted once each, and
\* a run that has returned is through with all of them
StatsAddUp ==
    \A r \in DOMAIN run :
       LET rs == run[r] IN
       /\ rs.pc \in {"lookup", "fetch", "persist"} =>
             rs.stats.already_exists + rs.stats.newly_parsed + rs.stats.parse_errors
                = rs.i - 1
       /\ rs.pc = "done" =>
             /\ rs.stats.total_fetched = Len(rs.messages)
             /\ rs.stats.total_fetched
                   = rs.stats.already_exists + rs.stats.newly_parsed
                        + rs.stats.parse_errors
       /\ CategoryTotal(rs.stats.by_category) = rs.stats.newly_parsed

\* a step of a run adds as many rows as it adds to newly_parsed
RowsAddedAreCounted ==
    \A r \in DOMAIN run :
       (run'[r] # run[r] /\ run[r].pc \in {"lookup", "fetch", "persist"}) =>
           /\ db \subseteq db'
           /\ Cardinality(db' \ db)
                 = run'[r].stats.newly_parsed - run[r].stats.newly_parsed

\* C28: when a run returns its stats, every listed message has been
\* counted in exactly one of already_exists, newly_parsed and parse_errors
\* (total_fetched is their sum), the number of rows the run added is
\* newly_parsed, and the counts in by_category sum to newly_parsed.
C28_StatsAccountForEveryMessage == []StatsAddUp /\ [][RowsAddedAreCounted]_vars

\* a run has returned the stats of a listing of two messages that both
\* failed, over a table with rows
C28_Witness ==
    /\ run[1].pc = "done"
    /\ db # {}
    /\ run[1].stats.total_fetched = 2
    /\ run[1].stats.already_exists = 0
    /\ run[1].stats.parse_errors = 2
    /\ run[1].stats.newly_parsed = 0

-----------------------------------------------------------------------------
(* Two requests to POST /api/extract at a time: each has its own           *)
(* NewsletterService and its own session, and their steps interleave.      *)

\* the listings of the two requests: one or two messages each, out of two
\* messages of the mailbox, with a message in both
ConcurrentListings ==
    LET ids == {<<"1">>, <<"2">>}
        lists == [1..1 -> ids] \cup [1..2 -> ids]
    IN  {pair \in lists \X lists :
            \E m \in 1..Len(pair[1]), n \in 1..Len(pair[2]) : pair[1][m] = pair[2][n]}

\* a run for the owner that has its listing and is at its first message
ListedRun(owner_email, messages) ==
    NextMessage([IdleRun EXCEPT !.owner = normalize_owner_email(owner_email),
                                !.messages = messages,
                                !.i = 0,
                                !.stats.total_fetched = Len(messages),
                                !.out = "listed"])

ConcurrentInit ==
    /\ db \in InitialStores
    /\ now = ClockStart
    /\ tz = 0
    /\ run \in {[r \in {1, 2} |-> ListedRun(<<"a", "@", "x">>, pair[r])] :
                   pair \in ConcurrentListings}
    /\ nruns = 2
    /\ resp = NoResp
    /\ pmsg = NoMsg
    /\ pstage = "off"
    /\ pres = NoRes
    /\ app = Serving
    /\ daily = NoDaily
    /\ call = NoCall

ConcurrentNext ==
    \/ \E r \in DOMAIN run : DedupLookup(r)
    \/ \E r \in DOMAIN run : FetchAndParse(r)
    \/ \E r \in DOMAIN run : Persist(r)

ConcurrentSpec == ConcurrentInit /\ [][ConcurrentNext]_vars

\* the table keeps its key, no run has raised, and a run that has returned
\* has counted every message of its listing
RaceIsSettled ==
    /\ UniqueMessageIds(db)
    /\ \A r \in DOMAIN run :
          /\ run[r].pc # "raised"
          /\ run[r].pc = "done" =>
                run[r].stats.already_exists + run[r].stats.newly_parsed
                   + run[r].stats.parse_errors = Len(run[r].messages)

\* a step adds at most one row, the row of the message the run is at, and
\* only the run that made the step counts it as newly parsed
OneRowPerWinner ==
    /\ db \subseteq db'
    /\ Cardinality(db' \ db) <= 1
    /\ \A r \in DOMAIN run :
          run'[r].stats.newly_parsed - run[r].stats.newly_parsed
             = IF run'[r] # run[r] THEN Cardinality(db' \ db) ELSE 0
    /\ \A r \in DOMAIN run :
          (run'[r] # run[r] /\ run[r].pc = "persist" /\ db' = db) =>
              /\ run'[r].stats.parse_errors = run[r].stats.parse_errors + 1
              /\ run'[r].i = run[r].i + 1

\* C29: when two runs for one owner execute at a time over listings that
\* share a message, with their lookups and inserts interleaved in any
\* order, at most one record for that message is persisted, the run that
\* loses counts the message in already_exists or parse_errors, and both
\* runs go on with their remaining messages.
C29_ConcurrentRunsOneRecord == []RaceIsSettled /\ [][OneRowPerWinner]_vars

\* the first run has failed to store the shared message and has returned
\* with it counted as a parse error, the second run is past its lookup of
\* the same message and about to store it, and the table has no row for it
C29_Witness ==
    /\ run[1].messages = <<<<"2">>>>
    /\ run[1].pc = "done"
    /\ run[1].out = "KeyError"
    /\ run[1].stats.parse_errors = 1
    /\ run[2].pc = "persist"
    /\ run[2].messages[run[2].i] = <<"2">>
    /\ \A x \in db : x.message_id # ScopedId(run[2].owner, <<"2">>)

(***************************************************************************)
(* Theme synthesis, the third stage: the overlaps across the summaries of  *)
(* a period, {themes: [...], synthesis: "..."}, as generate_summary_pdf    *)
(* takes them.                                                             *)
(***************************************************************************)

MaxThemeInputs == 3

\* the themes of a period without overlaps to report
EmptyThemes == [themes |-> <<>>, synthesis |-> <<>>]

\* a synthesis that asks the model for one summary already
ThemesNeedModelForOne(summaries) == Len(summaries) >= 1

\* the synthesis is asked of the model for two summarized records or more
ThemesNeedModel(summaries) == Len(summaries) >= 2

\* the themes out of the response of the model
themes_result(parsed) ==
    IF parsed.ok /\ parsed.value.type = "object"
    THEN [themes |-> MemberOr(parsed.value.val, <<"t", "h", "e", "m", "e", "s">>, <<>>),
          synthesis |-> MemberOr(parsed.value.val, <<"s", "y", "n", "t", "h", "e", "s", "i", "s">>, <<>>)]
    ELSE EmptyThemes

\* the synthesis of the themes: nothing to compare below two summaries, and
\* a failure of the call degrades to the empty result
synthesize_themes(summaries, response) ==
    IF ~ThemesNeedModel(summaries) THEN EmptyThemes
    ELSE IF response.fails THEN EmptyThemes
    ELSE themes_result(json_loads(Strip(unwrap_code_block(response.text))))

\* the summaries of the records of a period
ThemeSummaries ==
    {[id |-> 1, sender_name |-> <<"L", "e", "n", "n", "y">>, summary |-> <<"S">>],
     [id |-> 2, sender_name |-> <<"C", "h", "a", "r", "t", "r">>, summary |-> <<"T">>]}

ThemeInputs == UNION {[1..n -> ThemeSummaries] : n \in 0..MaxThemeInputs}

ThemesText == <<"{", "\"", "t", "h", "e", "m", "e", "s", "\"", ":", "[", "\"", "A", "I", "\"", "]", "}">>

ThemePlans ==
    {<<ApiFailure, Reply(ThemesText)>>,
     <<Reply(ThemesText), ApiFailure>>,
     <<Reply(WrapJson(ThemesText))>>,
     <<Reply(<<"{", "\"", "s", "y", "n", "t", "h", "e", "s", "i", "s", "\"", ":", "\"", "S", "\"", "}">>), Reply(ThemesText)>>,
     <<ApiFailure>>}

\* the synthesis with its request to the model
TSynthesize ==
    /\ call.pc = "ready"
    /\ call.kind = "themes"
    /\ ThemesNeedModel(call.newsletters)
    /\ LET response == call.plan[call.k]
           c == [call EXCEPT !.requests = @ + 1,
                             !.session_stats = IF response.fails THEN @
                                               ELSE log_usage(@, response)]
       IN  call' = Returned(c, synthesize_themes(call.newsletters, response))
    /\ UNCHANGED <<db, now, tz, run, nruns, resp, pmsg, pstage, pres, app, daily>>

\* the synthesis of fewer than two summaries: no request
TTooFew ==
    /\ call.pc = "ready"
    /\ call.kind = "themes"
    /\ ~ThemesNeedModel(call.newsletters)
    /\ call' = Returned(call, synthesize_themes(call.newsletters, call.plan[call.k]))
    /\ UNCHANGED <<db, now, tz, run, nruns, resp, pmsg, pstage, pres, app, daily>>

ThemesInit ==
    /\ db = {}
    /\ now = ClockStart
    /\ tz = 0
    /\ run = [r \in {1} |-> IdleRun]
    /\ nruns = 0
    /\ resp = NoResp
    /\ pmsg = NoMsg
    /\ pstage = "off"
    /\ pres = NoRes
    /\ app = Serving
    /\ daily = NoDaily
    /\ call \in {NewCall("themes", <<>>, summaries, plan) :
                    summaries \in ThemeInputs, plan \in ThemePlans}

ThemesNext == TSynthesize \/ TTooFew

ThemesSpec == ThemesInit /\ [][ThemesNext]_vars

\* C22: theme synthesis calls the model only when at least two summarized
\* records exist for the period; with fewer than two it yields empty themes
\* without a call of the model, and a failed call yields the empty
\* themes/synthesis result.
C22_ThemesOnlyForTwoOrMore ==
    /\ call.requests > 0 => Len(call.newsletters) >= 2
    /\ \A k \in 1..Len(call.results) :
          /\ Len(call.newsletters) < 2 =>
                call.results[k] = EmptyThemes /\ call.requests = 0
          /\ call.plan[k].fails => call.results[k] = EmptyThemes

\* two summaries: the first synthesis failed and gave the empty result, the
\* second one was answered and gave a theme, with two requests made
C22_Witness ==
    /\ call.pc = "done"
    /\ Len(call.newsletters) = 2
    /\ call.plan[1].fails
    /\ call.requests = 2
    /\ call.results[1] = EmptyThemes
    /\ call.results[2].themes # <<>>

\* one summary: the synthesis returned the empty themes and no request was
\* made
ThemesOfOneSummaryWithoutCall ==
    /\ call.pc = "done"
    /\ Len(call.newsletters) = 1
    /\ call.requests = 0
    /\ call.results[1] = EmptyThemes

(***************************************************************************)
(* The newsletters list of a category in the result of the daily run.      *)
(***************************************************************************)

\* the newsletters of category g that have HTML, in the order of the loop
WithHtml(g) ==
    SelectSeq(daily.groups[g].cat_newsletters, LAMBDA nl : nl.raw_html # <<>>)

\* the list of category g in the result has one entry for each newsletter
\* with HTML, in order, its summary or its placeholder
OneEntryPerRecord(g) ==
    LET entries == daily.result.categories[g].newsletters IN
    /\ Len(entries) = Len(WithHtml(g))
    /\ \A k \in 1..Len(entries) :
          /\ entries[k].id = WithHtml(g)[k].id
          /\ entries[k].kind \in {"summarized", "placeholder"}

\* C30: in the result of the daily run, the newsletters list of each
\* category has exactly one entry for every record of the category that
\* has HTML content, in processing order, each the summary of the record or
\* its error placeholder, also when the rollup of the category failed.
C30_OneEntryPerRecordWithHtml ==
    (daily.pc = "done" /\ daily.result.kind = "summary") =>
        \A g \in 1..Len(daily.groups) : OneEntryPerRecord(g)

\* what holds: the list is complete for every category whose rollup did
\* not fail
EntriesCompleteUnlessRollupFailed ==
    (daily.pc = "done" /\ daily.result.kind = "summary") =>
        \A g \in 1..Len(daily.groups) :
           g \notin daily.rollup_failed => OneEntryPerRecord(g)

\* and the list of a category whose rollup failed is empty, although the
\* category had records with HTML
RollupFailureEmptiesEntries ==
    (daily.pc = "done" /\ daily.result.kind = "summary") =>
        \A g \in daily.rollup_failed :
           /\ daily.result.categories[g].newsletters = <<>>
           /\ WithHtml(g) # <<>>

\* a returned run: the newsletter of the first category was summarized,
\* the rollup of the category failed, and the list of the category is empty
RollupFailedLosesEntries ==
    /\ daily.pc = "done"
    /\ daily.result.kind = "summary"
    /\ 1 \in daily.rollup_failed
    /\ Len(RecordCalls(1)) = 1
    /\ RecordCalls(1)[1].ok
    /\ daily.result.categories[1].newsletter_count = 1
    /\ daily.result.categories[1].newsletters = <<>>

====
